---------------------------- MODULE Spec2Model ----------------------------
(***************************************************************************)
(* The Brainfuck JIT compiler of src/print_uid/README.md (x86-64 / Linux): *)
(* main() validates the brackets of the script, maps a code buffer and a   *)
(* tape, compiles the script to machine code, flips the buffer from        *)
(* writable to executable, calls it and unmaps both regions.               *)
(*                                                                         *)
(* One process run is one behaviour.  The emitted bytes are kept as bytes, *)
(* and execution decodes them again, so that the encoders and the jump     *)
(* displacements are checked by what the machine would do with them.       *)
(***************************************************************************)
EXTENDS Integers, Sequences, FiniteSets, TLC

(***************************************************************************)
(* Program constants.  CODE_SIZE is 1 << 20 in the source (line 71); the   *)
(* model scales it down so that the overflow path of check_space is in     *)
(* reach of a script TLC can compile; it stays larger than the code of a   *)
(* script nested MAX_NESTING deep (14 + 22 * 256 + 6 bytes), as in the     *)
(* source.  TAPE_SIZE is 65536 in the source (line 72); the model scales   *)
(* it down so that a run of '>' can take the offset to the end of the      *)
(* tape and beyond.                                                        *)
(***************************************************************************)
CODE_SIZE == 5700

TAPE_SIZE == 256

MAX_NESTING == 256

VlogInitCap == 64

EOF == -1

(***************************************************************************)
(* Bounds of the model.                                                    *)
(***************************************************************************)
\* every script of at most MaxLen characters is an input
MaxLen == 2

\* every string of brackets of at most MaxBr characters is an input
MaxBr == 6

\* runs of one repeated operator are inputs up to this length
MaxRun == 258

\* getchar delivers at most MaxInput bytes before end of stream
MaxInput == 2

\* putchar is followed for at most MaxOut bytes
MaxOut == 4

\* a command line holds at most MaxArgs arguments after the program name
MaxArgs == 3

(***************************************************************************)
(* Scripts.                                                                *)
(***************************************************************************)
Alphabet == {"+", "-", ">", "<", ".", ",", "[", "]", "x"}

Rep(c, n) == [k \in 1..n |-> c]

Nest(d) == Rep("[", d) \o Rep("]", d)

ShortScripts == UNION {[1..n -> Alphabet] : n \in 0..MaxLen}

BracketScripts == UNION {[1..n -> {"[", "]"}] : n \in 0..MaxBr}

RunLens == {n \in 1..MaxRun : n <= 4 \/ n % 128 \in {0, 1, 2, 126, 127}}

RunScripts ==
    {Rep(c, n) : c \in {"+", "-", ">", "<"}, n \in RunLens}
    \cup {Rep(p[1], n) \o Rep(p[2], m) :
            p \in {<<"+", "-">>, <<"-", "+">>, <<">", "<">>, <<"<", ">">>},
            n \in RunLens, m \in 1..3}

NestScripts == {Nest(d) : d \in {MAX_NESTING - 1, MAX_NESTING, MAX_NESTING + 1}}

\* the README's verification programs (src/unnamed/part_007, lines 70-85)
CatProg == <<",", "[", ".", ",", "]">>

AddProg == <<"+", "+", ">", "+", "+", "+", "+", "+", "<",
             "[", "-", ">", "+", "<", "]", ">", ".">>

FiveDot == <<"+", "+", "+", "+", "+", ".">>

\* scripts whose code ends within 17 bytes of the capacity, on either side
DotsFit == (CODE_SIZE - 20) \div 17

FillScripts ==
    {Rep(".", k) : k \in {DotsFit, DotsFit + 1}}
    \cup {Rep(".", DotsFit) \o t :
            t \in {<<"+">>, <<">">>, <<"[", "]">>, <<",">>, <<"+", "+">>,
                   Rep(">", 128), <<"+", ">">>, <<"+", "[">>}}

\* loops that run, loops that do not end, and a comment between two operators
LoopScripts ==
    {<<"+", "[", "-", "]">>, <<",", "[", "-", "]">>, <<"+", "[", "]">>,
     <<"+", "[", ">", "]">>, <<"+", "[", "<", "]">>, <<"+", "[", ".", "]">>,
     <<"+", "[", ",", "]">>, <<",", "+", "+">>, <<",", "-", "-", "-">>,
     <<"+", "x", "+">>, <<"+", "[", "[", "-", "]", "]">>}

Scripts ==
    ShortScripts \cup BracketScripts \cup RunScripts \cup NestScripts
    \cup FillScripts \cup LoopScripts \cup {CatProg, AddProg, FiveDot}

(***************************************************************************)
(* Integers as the bytes the emitters store them in.                       *)
(***************************************************************************)
Byte == 0..255

\* (uint8_t)n
U8(n) == n % 256

\* memcpy of a 32-bit value on a little-endian machine: two's complement
LE32(v) == [k \in 1..4 |-> (v \div (256 ^ (k - 1))) % 256]

\* the int32_t that four little-endian bytes hold
S32(b) == b[1] + 256 * b[2] + 65536 * b[3]
          + 16777216 * (IF b[4] >= 128 THEN b[4] - 256 ELSE b[4])

\* an int widened to the 8 bytes of a 64-bit register
LE64(v) == [k \in 1..8 |-> IF k <= 4 THEN (v \div (256 ^ (k - 1))) % 256
                            ELSE IF v < 0 THEN 255 ELSE 0]

\* the int8_t a byte holds, sign-extended
S8(b) == IF b >= 128 THEN b - 256 ELSE b

(***************************************************************************)
(* The addresses of putchar and getchar, as the 8 bytes emit_u64 stores.   *)
(* They are fixed when the process is loaded; libc is the load base the    *)
(* process got.                                                            *)
(***************************************************************************)
LibcBases == {16, 32}

putchar_addr(base) == <<80, 14, base, 247, 255, 127, 0, 0>>

getchar_addr(base) == <<160, 9, base, 247, 255, 127, 0, 0>>


(***************************************************************************)
(* State.                                                                  *)
(***************************************************************************)
VARIABLES
    src,          \* the script, a sequence of characters (main's src)
    verbose,      \* the -v flag
    libc,         \* load base of libc in this process
    pc,           \* where main is
    exit_status,  \* the status the process ended with, -1 while it runs
    code_map,     \* the code region: "none", "mapped", "unmapped", "bogus"
    code_prot,    \* protection of the code region, a subset of {"R","W","X"}
    tape_map,     \* the tape region: "none", "mapped", "unmapped", "bogus"
    code,         \* bytes stored in the code buffer, from offset 0
    code_len,     \* bytes emitted so far
    vlog,         \* the verbose-mode log
    vlog_cap,     \* entries the log has room for
    i,            \* compile's index into src
    depth,        \* compile's backpatch stack depth
    fixups,       \* compile's backpatch stack
    compile_rc,   \* what compile returned, "none" until it returns
    valid,        \* what validate_brackets returned and reported, or "none"
    tape,         \* the cells written so far (all others are zero)
    cpu,          \* registers, flags and stack of the running JIT'd code
    stdin_read,   \* what getchar has returned, up to the first EOF
    output,       \* the bytes putchar has been given
    fatal,        \* the fatal error reported by an emitter, or "none"
    blk,          \* for each character consumed by compile, its chunk's offset
    events,       \* the steps of main completed so far, in order
    argv,         \* the arguments after argv[0], each a sequence of characters
    diag,         \* what main's argument handling wrote to stderr, in order
    source,       \* where src was read from: "none", "inline" or "file"
    listing,      \* the lines print_disassembly wrote to stdout
    prev          \* what an earlier invocation on the same source emitted

vars == <<src, verbose, libc, pc, exit_status, code_map, code_prot, tape_map,
          code, code_len, vlog, vlog_cap, i, depth, fixups, compile_rc, valid,
          tape, cpu, stdin_read, output, fatal, blk, events, argv, diag,
          source, listing, prev>>

(***************************************************************************)
(* Emit helpers.  An emitter is a sequence of emit calls, any of which may *)
(* end the process in check_space; m is the memory the calls work on, and  *)
(* m.halt says whether the process has ended.  The emit calls take the     *)
(* memory they are given as one value, mm, and give back the memory they   *)
(* leave behind.                                                           *)
(***************************************************************************)
Mem == [code |-> code, code_len |-> code_len, vlog |-> vlog,
        vlog_cap |-> vlog_cap, halt |-> "none", used |-> 0, need |-> 0]

\* memcpy(code + off, buf, n): bytes between the old end and off read as 0
Store(c, off, buf) ==
    LET n == Len(buf) IN
    IF off = Len(c) THEN c \o buf
    ELSE IF off + n <= Len(c)
    THEN SubSeq(c, 1, off) \o buf \o SubSeq(c, off + n + 1, Len(c))
    ELSE [k \in 1..(off + n) |->
            IF k > off THEN buf[k - off]
            ELSE IF k <= Len(c) THEN c[k] ELSE 0]

check_space_no_check(len, need) == FALSE

check_space_off_by_one(len, need) == len + need > CODE_SIZE + 1

\* TRUE when check_space(need) ends the process
check_space(len, need) == len + need > CODE_SIZE

Halts(m) == m.halt # "none"

Overflow(m, need) ==
    [m EXCEPT !.halt = "overflow", !.used = m.code_len, !.need = need]

emit_byte(m, b) ==
    LET at(mm) ==
        IF mm.halt # "none" THEN mm
        ELSE IF check_space(mm.code_len, 1) THEN Overflow(mm, 1)
        ELSE [mm EXCEPT !.code = Store(mm.code, mm.code_len, <<b>>),
                       !.code_len = mm.code_len + 1]
    IN  CHOOSE r \in {at(mm) : mm \in {m}} : TRUE

emit_bytes_truncating(m, buf) ==
    IF m.halt # "none" THEN m
    ELSE IF check_space(m.code_len, Len(buf))
    THEN LET fit == CODE_SIZE - m.code_len
         IN  [Overflow(m, Len(buf)) EXCEPT
                 !.code = Store(m.code, m.code_len, SubSeq(buf, 1, fit)),
                 !.code_len = m.code_len + fit]
    ELSE [m EXCEPT !.code = Store(m.code, m.code_len, buf),
                   !.code_len = m.code_len + Len(buf)]

emit_bytes(m, buf) ==
    LET at(mm) ==
        IF mm.halt # "none" THEN mm
        ELSE IF check_space(mm.code_len, Len(buf)) THEN Overflow(mm, Len(buf))
        ELSE [mm EXCEPT !.code = Store(mm.code, mm.code_len, buf),
                       !.code_len = mm.code_len + Len(buf)]
    IN  CHOOSE r \in {at(mm) : mm \in {m}} : TRUE

emit_u32(m, v) ==
    LET at(mm) ==
        IF mm.halt # "none" THEN mm
        ELSE IF check_space(mm.code_len, 4) THEN Overflow(mm, 4)
        ELSE [mm EXCEPT !.code = Store(mm.code, mm.code_len, LE32(v)),
                       !.code_len = mm.code_len + 4]
    IN  CHOOSE r \in {at(mm) : mm \in {m}} : TRUE

\* v is the 8 bytes of the value
emit_u64(m, v) ==
    LET at(mm) ==
        IF mm.halt # "none" THEN mm
        ELSE IF check_space(mm.code_len, 8) THEN Overflow(mm, 8)
        ELSE [mm EXCEPT !.code = Store(mm.code, mm.code_len, v),
                       !.code_len = mm.code_len + 8]
    IN  CHOOSE r \in {at(mm) : mm \in {m}} : TRUE

patch_u32_one_byte_late(m, offset, v) ==
    IF m.halt # "none" THEN m
    ELSE [m EXCEPT !.code = Store(m.code, offset + 1, LE32(v))]

patch_u32(m, offset, v) ==
    LET at(mm) ==
        IF mm.halt # "none" THEN mm
        ELSE [mm EXCEPT !.code = Store(mm.code, offset, LE32(v))]
    IN  CHOOSE r \in {at(mm) : mm \in {m}} : TRUE

vlog_push_moves_cursor(m, offset, len, desc, ok) ==
    IF m.halt # "none" \/ ~verbose THEN m
    ELSE [m EXCEPT !.code = Store(m.code, m.code_len, <<144>>),
                   !.code_len = @ + 1]

vlog_push_always(m, offset, len, desc, ok) ==
    IF m.halt # "none" THEN m
    ELSE [m EXCEPT
            !.vlog_cap = IF Len(m.vlog) = m.vlog_cap
                         THEN (IF m.vlog_cap # 0 THEN m.vlog_cap * 2
                               ELSE VlogInitCap)
                         ELSE m.vlog_cap,
            !.vlog = Append(m.vlog, [offset |-> offset, len |-> len,
                                     desc |-> desc])]

\* ok: whether realloc succeeds, should the log have to grow
vlog_push(m, offset, len, desc, ok) ==
    LET at(mm) ==
        IF mm.halt # "none" \/ ~verbose THEN mm
        ELSE IF Len(mm.vlog) = mm.vlog_cap /\ ~ok THEN [mm EXCEPT !.halt = "realloc"]
        ELSE [mm EXCEPT
                !.vlog_cap = IF Len(mm.vlog) = mm.vlog_cap
                             THEN (IF mm.vlog_cap # 0 THEN mm.vlog_cap * 2
                                   ELSE VlogInitCap)
                             ELSE mm.vlog_cap,
                !.vlog = Append(mm.vlog, [offset |-> offset, len |-> len,
                                         desc |-> desc])]
    IN  CHOOSE r \in {at(mm) : mm \in {m}} : TRUE

(***************************************************************************)
(* Prologue, epilogue and the instruction emitters.                        *)
(***************************************************************************)
prologue == <<85, 72, 137, 229, 65, 84, 65, 85, 73, 137, 252, 69, 49, 237>>

epilogue_pops_swapped == <<65, 92, 65, 93, 93, 195>>

epilogue == <<65, 93, 65, 92, 93, 195>>

emit_prologue(m, ok) ==
    LET start == m.code_len
    IN  vlog_push(emit_bytes(m, prologue), start, Len(prologue),
                  "push rbp; mov rbp,rsp; push r12; push r13; mov r12,rdi; xor r13d,r13d",
                  ok)

emit_epilogue(m, ok) ==
    LET start == m.code_len
    IN  vlog_push(emit_bytes(m, epilogue), start, Len(epilogue),
                  "pop r13; pop r12; pop rbp; ret", ok)

emit_add_cell(m, n, ok) ==
    LET start == m.code_len
        m1 == IF n = 1 THEN emit_bytes(m, <<67, 254, 4, 44>>)
              ELSE IF n = -1 THEN emit_bytes(m, <<67, 254, 12, 44>>)
              ELSE IF n > 0 THEN emit_bytes(m, <<67, 128, 4, 44, U8(n)>>)
              ELSE emit_bytes(m, <<67, 128, 44, 44, U8(-n)>>)
        desc == IF n = 1 THEN "inc byte [r12+r13]"
                ELSE IF n = -1 THEN "dec byte [r12+r13]"
                ELSE IF n > 0 THEN "add byte [r12+r13], " \o ToString(n)
                ELSE "sub byte [r12+r13], " \o ToString(-n)
    IN  vlog_push(m1, start, m1.code_len - start, desc, ok)

emit_move_ptr_imm8_to_128(m, n, ok) ==
    LET start == m.code_len
        m1 == IF n = 1 THEN emit_bytes(m, <<73, 255, 197>>)
              ELSE IF n = -1 THEN emit_bytes(m, <<73, 255, 205>>)
              ELSE IF n > 0 /\ n <= 128 THEN emit_bytes(m, <<73, 131, 197, U8(n)>>)
              ELSE IF n < 0 /\ n >= -128 THEN emit_bytes(m, <<73, 131, 237, U8(-n)>>)
              ELSE IF n > 0
              THEN emit_u32(emit_byte(emit_byte(emit_byte(m, 73), 129), 197), n)
              ELSE emit_u32(emit_byte(emit_byte(emit_byte(m, 73), 129), 237), -n)
    IN  vlog_push(m1, start, m1.code_len - start, "add/sub r13", ok)

emit_move_ptr(m, n, ok) ==
    LET start == m.code_len
        m1 == IF n = 1 THEN emit_bytes(m, <<73, 255, 197>>)
              ELSE IF n = -1 THEN emit_bytes(m, <<73, 255, 205>>)
              ELSE IF n > 0 /\ n <= 127 THEN emit_bytes(m, <<73, 131, 197, U8(n)>>)
              ELSE IF n < 0 /\ n >= -127 THEN emit_bytes(m, <<73, 131, 237, U8(-n)>>)
              ELSE IF n > 0
              THEN emit_u32(emit_byte(emit_byte(emit_byte(m, 73), 129), 197), n)
              ELSE emit_u32(emit_byte(emit_byte(emit_byte(m, 73), 129), 237), -n)
        desc == IF n = 1 THEN "inc r13"
                ELSE IF n = -1 THEN "dec r13"
                ELSE IF n > 0 THEN "add r13, " \o ToString(n)
                ELSE "sub r13, " \o ToString(-n)
    IN  vlog_push(m1, start, m1.code_len - start, desc, ok)

emit_putchar(m, ok) ==
    LET start == m.code_len
        m1 == emit_bytes(m, <<67, 15, 182, 60, 44>>)
        m2 == emit_u64(emit_byte(emit_byte(m1, 72), 184), putchar_addr(libc))
        m3 == emit_byte(emit_byte(m2, 255), 208)
    IN  vlog_push(m3, start, m3.code_len - start,
                  "movzx edi,[r12+r13]; mov rax,putchar; call rax", ok)

emit_getchar_no_store(m, ok) ==
    LET start == m.code_len
        m1 == emit_u64(emit_byte(emit_byte(m, 72), 184), getchar_addr(libc))
        m2 == emit_byte(emit_byte(m1, 255), 208)
    IN  vlog_push(m2, start, m2.code_len - start,
                  "mov rax,getchar; call rax; mov [r12+r13],al", ok)

emit_getchar(m, ok) ==
    LET start == m.code_len
        m1 == emit_u64(emit_byte(emit_byte(m, 72), 184), getchar_addr(libc))
        m2 == emit_byte(emit_byte(m1, 255), 208)
        m3 == emit_bytes(m2, <<67, 136, 4, 44>>)
    IN  vlog_push(m3, start, m3.code_len - start,
                  "mov rax,getchar; call rax; mov [r12+r13],al", ok)

emit_cmp_cell_zero(m) == emit_bytes(m, <<67, 128, 60, 44, 0>>)

\* the memory after the emitter, and the fixup offset it returns
emit_loop_open(m, ok) ==
    LET start == m.code_len
        m1 == emit_byte(emit_byte(emit_cmp_cell_zero(m), 15), 132)
        fixup == m1.code_len
        m2 == emit_u32(m1, 0)
    IN  [mem |-> vlog_push(m2, start, m2.code_len - start,
                           "cmp byte [r12+r13],0; je <forward>", ok),
         fixup |-> fixup]

back_disp_into_body(open_fixup, len) == (open_fixup + 4) - (len + 4)

back_disp_no_width(open_fixup, len) == (open_fixup - 7) - len

\* displacement of the jne of ], len being code_len before the rel32
back_disp(open_fixup, len) == (open_fixup - 7) - (len + 4)

fwd_disp_no_width(open_fixup, len) == len - open_fixup

\* displacement of the je of [, len being code_len after the ] block
fwd_disp(open_fixup, len) == len - (open_fixup + 4)

emit_loop_close(m, open_fixup, ok) ==
    LET start == m.code_len
        m1 == emit_byte(emit_byte(emit_cmp_cell_zero(m), 15), 133)
        m2 == emit_u32(m1, back_disp(open_fixup, m1.code_len))
        m3 == patch_u32(m2, open_fixup, fwd_disp(open_fixup, m2.code_len))
    IN  vlog_push(m3, start, m3.code_len - start,
                  "cmp byte [r12+r13],0; jne <back>", ok)

(***************************************************************************)
(* Bracket validation.  Positions are the 0-based offsets the diagnostics  *)
(* print.                                                                  *)
(***************************************************************************)
NotValidated == [done |-> FALSE, rc |-> 0, err |-> "none", pos |-> 0, n |-> 0]

Verdict(rc, err, pos, n) ==
    [done |-> TRUE, rc |-> rc, err |-> err, pos |-> pos, n |-> n]

vb_report_last_open(s, k, d, fu) == k

vb_depth_limit_off_by_one(max_depth) == max_depth >= MAX_NESTING

vb_depth_limit_too_lax(max_depth) == max_depth > MAX_NESTING + 1

\* the nesting check after the scan
vb_depth_limit(max_depth) == max_depth > MAX_NESTING

\* first_unmatched after a '[' at offset k seen at depth d
vb_first_unmatched(s, k, d, fu) == IF d = 0 THEN k ELSE fu

\* the loop's locals; out is the verdict of an early return, once there is one
vb_start == [d |-> 0, max_depth |-> 0, first_unmatched |-> 0, out |-> NotValidated]

\* one iteration of the for loop, at offset k
vb_iter(s, st, k) ==
    IF st.out.done THEN st
    ELSE IF s[k + 1] = "["
    THEN [st EXCEPT
            !.d = st.d + 1,
            !.max_depth = IF st.d + 1 > st.max_depth THEN st.d + 1 ELSE @,
            !.first_unmatched = vb_first_unmatched(s, k, st.d, @)]
    ELSE IF s[k + 1] = "]"
    THEN IF st.d = 0 THEN [st EXCEPT !.out = Verdict(-1, "close", k, 0)]
         ELSE [st EXCEPT !.d = st.d - 1]
    ELSE st

\* the iterations at offsets lo .. hi-1, in order
RECURSIVE vb_loop(_, _, _, _)
vb_loop(s, st, lo, hi) ==
    IF lo >= hi THEN st
    ELSE IF hi = lo + 1 THEN vb_iter(s, st, lo)
    ELSE LET mid == (lo + hi) \div 2
             left == vb_loop(s, st, lo, mid)
         IN  IF left.out.done THEN left ELSE vb_loop(s, left, mid, hi)

vb_scan(s) ==
    LET st == vb_loop(s, vb_start, 0, Len(s)) IN
    IF st.out.done THEN st.out
    ELSE IF st.d # 0 THEN Verdict(-1, "open", st.first_unmatched, st.d)
    ELSE IF vb_depth_limit(st.max_depth) THEN Verdict(-1, "depth", 0, st.max_depth)
    ELSE Verdict(0, "none", 0, 0)

validate_brackets(s) == vb_scan(s)

(***************************************************************************)
(* main, up to the call of compile.                                        *)
(***************************************************************************)
NoFatal == [kind |-> "none", used |-> 0, need |-> 0]

V(sym, off) == [sym |-> sym, off |-> off]

IdleCpu == [rip |-> 0, r12 |-> V("caller_r12", 0), r13 |-> V("caller_r13", 0),
            rbp |-> V("caller_rbp", 0), rdi |-> V("caller_rdi", 0),
            rax |-> LE64(0), zf |-> FALSE, stack |-> <<>>]

\* munmap of a region in state st
Munmap(st) == IF st = "mapped" THEN "unmapped" ELSE "bogus"

\* a char * that is NULL, or one that points to the string s
Null == [null |-> TRUE, s |-> <<>>]

Str(s) == [null |-> FALSE, s |-> s]

OptV == <<"-", "v">>

OptE == <<"-", "e">>

\* the arguments a command line is made of: the two options, an unknown
\* option, a script text and a file name
ArgTokens == {OptV, OptE, <<"-", "x">>, <<"+", ".">>, <<"f">>}

ArgLists == UNION {[1..n -> ArgTokens] : n \in 0..MaxArgs}

\* what the file named on the command line may hold
FileContents == {<<>>, <<",", ".">>, <<"]">>}

\* what read_source returns for it: NULL, or its content
FileOutcomes == {Null} \cup {Str(c) : c \in FileContents}

\* main's locals before its argument loop
pa_start == [i |-> 1, verbose |-> FALSE, inline_code |-> Null,
             filename |-> Null, diag |-> <<>>, failed |-> FALSE]

\* main's argument loop over av = argv[1 .. argc-1], from the state st
RECURSIVE parse_args(_, _)
parse_args(av, st) ==
    IF st.failed \/ st.i > Len(av) THEN st
    ELSE LET a == av[st.i] IN
         IF a = OptV
         THEN parse_args(av, [st EXCEPT !.verbose = TRUE, !.i = @ + 1])
         ELSE IF a = OptE
         THEN IF st.i + 1 > Len(av)
              THEN [st EXCEPT !.failed = TRUE,
                              !.diag = @ \o <<"error: -e requires an argument",
                                              "usage">>]
              ELSE parse_args(av, [st EXCEPT !.inline_code = Str(av[st.i + 1]),
                                             !.i = @ + 2])
         ELSE IF Len(a) > 0 /\ a[1] = "-"
         THEN [st EXCEPT !.failed = TRUE,
                         !.diag = @ \o <<"error: unknown option", "usage">>]
         ELSE parse_args(av, [st EXCEPT !.filename = Str(a), !.i = @ + 1])

\* nothing was emitted by an earlier invocation
NoPrev == [done |-> FALSE, code |-> <<>>, code_len |-> 0, libc |-> 0,
           verbose |-> FALSE]

\* a command line that gives the script s as a literal
ArgvFor(v, s) == (IF v THEN <<OptV>> ELSE <<>>) \o <<OptE, s>>

\* the state main's argument handling leaves for a script of the set scripts
InitParsed(scripts) ==
    /\ src \in scripts
    /\ verbose \in BOOLEAN
    /\ argv = ArgvFor(verbose, src)
    /\ diag = <<>>
    /\ source = "inline"

InitCommon ==
    /\ libc \in LibcBases
    /\ listing = <<>>
    /\ prev = NoPrev
    /\ exit_status = -1
    /\ code = <<>>
    /\ code_len = 0
    /\ vlog = <<>>
    /\ vlog_cap = 0
    /\ i = 0
    /\ depth = 0
    /\ fixups = <<>>
    /\ compile_rc = "none"
    /\ valid = NotValidated
    /\ tape = <<>>
    /\ cpu = IdleCpu
    /\ stdin_read = <<>>
    /\ output = <<>>
    /\ fatal = NoFatal
    /\ blk = <<>>

Init ==
    /\ InitCommon
    /\ InitParsed(Scripts)
    /\ pc = "validate"
    /\ code_map = "none"
    /\ code_prot = {}
    /\ tape_map = "none"
    /\ events = <<>>

UNCHANGED_compile == UNCHANGED <<code, code_len, vlog, vlog_cap, i, depth,
                                 fixups, compile_rc, fatal, blk>>

UNCHANGED_run == UNCHANGED <<tape, cpu, stdin_read, output>>

UNCHANGED_args == UNCHANGED <<src, verbose, libc, argv, diag, source, prev>>

UNCHANGED_in == UNCHANGED_args /\ UNCHANGED listing

\* main from its first line to "Get source" (lines 612-657): the argument
\* loop, the two checks of what was given, and the reading of the source
ParseArgs ==
    /\ pc = "parse_args"
    /\ LET st == parse_args(argv, pa_start)
           Fail(msgs) == /\ diag' = st.diag \o msgs
                         /\ pc' = "exit"
                         /\ exit_status' = 1
                         /\ UNCHANGED <<src, source>>
           Got(text, from) == /\ src' = text
                              /\ source' = from
                              /\ pc' = "validate"
                              /\ UNCHANGED <<diag, exit_status>>
       IN  /\ verbose' = st.verbose
           /\ IF st.failed THEN Fail(<<>>)
              ELSE IF st.inline_code.null /\ st.filename.null
              THEN Fail(<<"usage">>)
              ELSE IF ~st.inline_code.null /\ ~st.filename.null
              THEN Fail(<<"error: cannot use both -e and a filename">>)
              ELSE IF ~st.inline_code.null
              THEN \/ Got(st.inline_code.s, "inline")
                   \/ Fail(<<"malloc">>)
              ELSE \E f \in FileOutcomes :
                     IF f.null THEN Fail(<<"perror">>) ELSE Got(f.s, "file")
    /\ UNCHANGED <<libc, argv, prev, listing, valid, events>>
    /\ UNCHANGED <<code_map, code_prot, tape_map>>
    /\ UNCHANGED_compile /\ UNCHANGED_run

validate_failed_ignored == "mmap_code"

\* where main goes when validate_brackets fails
validate_failed_pc == "exit"

Validate ==
    /\ pc = "validate"
    /\ valid' = validate_brackets(src)
    /\ IF valid'.rc # 0
       THEN /\ pc' = validate_failed_pc
            /\ exit_status' = 1
       ELSE /\ pc' = "mmap_code"
            /\ exit_status' = exit_status
    /\ events' = Append(events, "validate")
    /\ UNCHANGED <<code_map, code_prot, tape_map>>
    /\ UNCHANGED_in /\ UNCHANGED_compile /\ UNCHANGED_run

MmapCode ==
    /\ pc = "mmap_code"
    /\ \/ /\ code_map' = "mapped"
          /\ code_prot' = {"R", "W"}
          /\ pc' = "mmap_tape"
          /\ exit_status' = exit_status
          /\ events' = Append(events, "mmap_code")
       \/ /\ pc' = "exit"
          /\ exit_status' = 1
          /\ UNCHANGED <<code_map, code_prot, events>>
    /\ UNCHANGED <<tape_map, valid>>
    /\ UNCHANGED_in /\ UNCHANGED_compile /\ UNCHANGED_run

MmapTape ==
    /\ pc = "mmap_tape"
    /\ \/ /\ tape_map' = "mapped"
          /\ pc' = "compile_begin"
          /\ exit_status' = exit_status
          /\ events' = Append(events, "mmap_tape")
          /\ UNCHANGED <<code_map, code_prot>>
       \/ /\ code_map' = Munmap(code_map)
          /\ code_prot' = {}
          /\ pc' = "exit"
          /\ exit_status' = 1
          /\ UNCHANGED <<tape_map, events>>
    /\ UNCHANGED valid
    /\ UNCHANGED_in /\ UNCHANGED_compile /\ UNCHANGED_run

(***************************************************************************)
(* compile.  Commit stores what the emit calls of one step left behind;    *)
(* when one of them ended the process, nothing after it has run.           *)
(***************************************************************************)
\* whether realloc succeeds, where the next vlog_push has to call it
ReallocOutcomes ==
    IF verbose /\ Len(vlog) = vlog_cap THEN BOOLEAN ELSE {TRUE}

\* what fixups[depth++] = ... does: within the array it stores; past its
\* end the store is undefined, and either lands on the stack beyond the
\* array or ends the process
FixupStoreOutcomes ==
    IF depth >= MAX_NESTING THEN {"store", "kill"} ELSE {"store"}

fatal_exit_status_zero_on_overflow(kind) == IF kind = "overflow" THEN 0 ELSE 1

\* the status of exit(1) in check_space ("overflow") and vlog_push ("realloc")
fatal_exit_status(kind) == 1

Commit(m, next_pc) ==
    /\ code' = m.code
    /\ code_len' = m.code_len
    /\ vlog' = m.vlog
    /\ vlog_cap' = m.vlog_cap
    /\ IF m.halt # "none"
       THEN /\ pc' = "exit"
            /\ exit_status' = fatal_exit_status(m.halt)
            /\ fatal' = [kind |-> m.halt, used |-> m.used, need |-> m.need]
       ELSE /\ pc' = next_pc
            /\ exit_status' = exit_status
            /\ fatal' = fatal

CompileBegin ==
    /\ pc = "compile_begin"
    /\ \E ok \in ReallocOutcomes :
         Commit(emit_prologue([Mem EXCEPT !.code_len = 0], ok), "compile_loop")
    /\ i' = 0
    /\ depth' = 0
    /\ UNCHANGED <<fixups, compile_rc, blk, events>>
    /\ UNCHANGED <<code_map, code_prot, tape_map, valid>>
    /\ UNCHANGED_in /\ UNCHANGED_run

RunEnd_stuck(s, k, cs) == k

RunEnd_skips_comments(s, k, cs) ==
    LET others == {"+", "-", ">", "<", ".", ",", "[", "]"} \ cs IN
    CHOOSE j \in k..Len(s) :
        /\ j = Len(s) \/ s[j + 1] \in others
        /\ \A j2 \in k..(j - 1) : s[j2 + 1] \notin others

\* where the while loop over the characters of set cs, entered at offset k, stops
RunEnd(s, k, cs) ==
    CHOOSE j \in k..Len(s) :
        /\ j = Len(s) \/ s[j + 1] \notin cs
        /\ \A j2 \in k..(j - 1) : s[j2 + 1] \in cs

RunDelta_all_up(s, from, to, plus) == to - from

\* the net delta of s[from .. to-1], counting up for character plus
RunDelta(s, from, to, plus) ==
    Cardinality({k \in (from + 1)..to : s[k] = plus})
    - Cardinality({k \in (from + 1)..to : s[k] # plus})

cell_delta_mod_128(delta) == ((delta % 128) + 128) % 128

cell_delta_unreduced(delta) == delta

\* delta = ((delta % 256) + 256) % 256, C's % truncating towards zero
cell_delta(delta) ==
    LET r == IF delta >= 0 THEN delta % 256 ELSE -((-delta) % 256)
    IN  (r + 256) % 256

cell_operand_sub_128(delta) == IF delta < 128 THEN delta ELSE delta - 256

\* what compile hands to emit_add_cell for a reduced delta in 1..255
cell_operand(delta) == IF delta <= 128 THEN delta ELSE delta - 256

\* blk after the characters at offsets from .. to-1 went into the chunk at start
Consumed(from, to, start) == blk \o [k \in 1..(to - from) |-> start]

CompileStep ==
    /\ pc = "compile_loop"
    /\ i < Len(src)
    /\ LET c == src[i + 1] IN
       \E ok \in ReallocOutcomes, oob \in FixupStoreOutcomes :
         CASE c \in {"+", "-"} ->
                LET e == RunEnd(src, i, {"+", "-"})
                    delta == cell_delta(RunDelta(src, i, e, "+"))
                IN  /\ i' = e
                    /\ blk' = Consumed(i, e, code_len)
                    /\ IF delta = 0 THEN Commit(Mem, "compile_loop")
                       ELSE Commit(emit_add_cell(Mem, cell_operand(delta), ok),
                                   "compile_loop")
                    /\ UNCHANGED <<depth, fixups, compile_rc>>
           [] c \in {">", "<"} ->
                LET e == RunEnd(src, i, {">", "<"})
                    delta == RunDelta(src, i, e, ">")
                IN  /\ i' = e
                    /\ blk' = Consumed(i, e, code_len)
                    /\ IF delta = 0 THEN Commit(Mem, "compile_loop")
                       ELSE Commit(emit_move_ptr(Mem, delta, ok), "compile_loop")
                    /\ UNCHANGED <<depth, fixups, compile_rc>>
           [] c = "." ->
                LET m == emit_putchar(Mem, ok)
                IN  /\ Commit(m, "compile_loop")
                    /\ i' = IF Halts(m) THEN i ELSE i + 1
                    /\ blk' = IF Halts(m) THEN blk ELSE Consumed(i, i + 1, code_len)
                    /\ UNCHANGED <<depth, fixups, compile_rc>>
           [] c = "," ->
                LET m == emit_getchar(Mem, ok)
                IN  /\ Commit(m, "compile_loop")
                    /\ i' = IF Halts(m) THEN i ELSE i + 1
                    /\ blk' = IF Halts(m) THEN blk ELSE Consumed(i, i + 1, code_len)
                    /\ UNCHANGED <<depth, fixups, compile_rc>>
           [] c = "[" ->
                LET r == emit_loop_open(Mem, ok) IN
                IF Halts(r.mem)
                THEN /\ Commit(r.mem, "compile_loop")
                     /\ UNCHANGED <<i, depth, fixups, compile_rc, blk>>
                ELSE IF depth >= MAX_NESTING /\ oob = "kill"
                THEN \* the store past the end of fixups[] ends the process
                     /\ Commit(r.mem, "killed")
                     /\ UNCHANGED <<i, depth, fixups, compile_rc, blk>>
                ELSE /\ Commit(r.mem, "compile_loop")
                     /\ fixups' = SubSeq(fixups, 1, depth) \o <<r.fixup>>
                     /\ depth' = depth + 1
                     /\ i' = i + 1
                     /\ blk' = Consumed(i, i + 1, code_len)
                     /\ UNCHANGED compile_rc
           [] c = "]" ->
                IF depth = 0
                THEN /\ compile_rc' = "fail"
                     /\ pc' = "compiled"
                     /\ UNCHANGED <<code, code_len, vlog, vlog_cap, exit_status,
                                    fatal, i, depth, fixups, blk>>
                ELSE LET m == emit_loop_close(Mem, fixups[depth], ok)
                     IN  /\ Commit(m, "compile_loop")
                         /\ depth' = depth - 1
                         /\ i' = IF Halts(m) THEN i ELSE i + 1
                         /\ blk' = IF Halts(m) THEN blk
                                   ELSE Consumed(i, i + 1, code_len)
                         /\ UNCHANGED <<fixups, compile_rc>>
           [] OTHER ->
                /\ i' = i + 1
                /\ blk' = Consumed(i, i + 1, code_len)
                /\ UNCHANGED <<code, code_len, vlog, vlog_cap, pc, exit_status,
                               fatal, depth, fixups, compile_rc>>
    /\ UNCHANGED <<code_map, code_prot, tape_map, valid, events>>
    /\ UNCHANGED_in /\ UNCHANGED_run

\* what compile returns once the whole source is consumed
compile_end_rc(d) == "ok"

CompileEnd ==
    /\ pc = "compile_loop"
    /\ i >= Len(src)
    /\ \E ok \in ReallocOutcomes :
         LET m == emit_epilogue(Mem, ok)
         IN  /\ Commit(m, "compiled")
             /\ compile_rc' = IF m.halt = "none" THEN compile_end_rc(depth)
                              ELSE compile_rc
    /\ UNCHANGED <<i, depth, fixups, blk>>
    /\ UNCHANGED <<code_map, code_prot, tape_map, valid, events>>
    /\ UNCHANGED_in /\ UNCHANGED_run

(***************************************************************************)
(* main after compile: the permission flip, the call and the cleanup.      *)
(***************************************************************************)
\* the bytes of a chunk that print_disassembly prints at most (j < 16)
DisasmMaxBytes == 16

\* the lines of print_disassembly, one per log entry
print_disassembly ==
    [k \in 1..Len(vlog) |->
        [offset |-> vlog[k].offset,
         bytes |-> [j \in 1..(IF vlog[k].len < DisasmMaxBytes THEN vlog[k].len
                               ELSE DisasmMaxBytes) |->
                        code[vlog[k].offset + j]],
         desc |-> vlog[k].desc]]

\* main between compile and mprotect: compile's result, and the verbose output
CompileCheck ==
    /\ pc = "compiled"
    /\ IF compile_rc # "ok"
       THEN /\ tape_map' = Munmap(tape_map)
            /\ code_map' = Munmap(code_map)
            /\ code_prot' = {}
            /\ pc' = "exit"
            /\ exit_status' = 1
            /\ events' = events
            /\ listing' = listing
       ELSE /\ pc' = "mprotect"
            /\ events' = Append(events, "compile")
            /\ listing' = IF verbose THEN print_disassembly ELSE listing
            /\ UNCHANGED <<tape_map, code_map, code_prot, exit_status>>
    /\ UNCHANGED valid
    /\ UNCHANGED_args /\ UNCHANGED_compile /\ UNCHANGED_run

mprotect_keeps_write == {"R", "W", "X"}

\* the protection mprotect(code, CODE_SIZE, PROT_READ | PROT_EXEC) leaves
mprotect_prot == {"R", "X"}

mprotect_failed_ignored == "call"

\* where main goes when mprotect fails
mprotect_failed_pc == "exit"

Mprotect ==
    /\ pc = "mprotect"
    /\ \/ /\ code_prot' = mprotect_prot
          /\ pc' = "call"
          /\ events' = Append(events, "mprotect")
          /\ UNCHANGED <<tape_map, code_map, exit_status>>
       \/ /\ tape_map' = Munmap(tape_map)
          /\ code_map' = Munmap(code_map)
          /\ code_prot' = {}
          /\ pc' = mprotect_failed_pc
          /\ exit_status' = 1
          /\ events' = events
    /\ UNCHANGED valid
    /\ UNCHANGED_in /\ UNCHANGED_compile /\ UNCHANGED_run

\* jit_entry(tape)
Call ==
    /\ pc = "call"
    /\ cpu' = [IdleCpu EXCEPT !.rdi = V("tape", 0),
                              !.stack = <<V("ret_main", 0)>>]
    /\ pc' = "exec"
    /\ events' = Append(events, "call")
    /\ UNCHANGED <<tape, stdin_read, output>>
    /\ UNCHANGED <<code_map, code_prot, tape_map, valid, exit_status>>
    /\ UNCHANGED_in /\ UNCHANGED_compile

Cleanup ==
    /\ pc = "cleanup"
    /\ tape_map' = Munmap(tape_map)
    /\ code_map' = Munmap(code_map)
    /\ code_prot' = {}
    /\ pc' = "exit"
    /\ exit_status' = 0
    /\ events' = Append(events, "cleanup")
    /\ UNCHANGED valid
    /\ UNCHANGED_in /\ UNCHANGED_compile /\ UNCHANGED_run

(***************************************************************************)
(* The JIT'd code running: one instruction per step, decoded from the      *)
(* bytes of the code buffer (encodings: source lines 160-165, 192-195,     *)
(* 215-219, 253-259, 297-299, 324-326, 349, 363, 389).                     *)
(***************************************************************************)
\* the bytes stdin may hold
InputBytes == {0, 65, 255}

\* what a read outside the tape may find
StrayBytes == {0, 1}

\* an access outside the tape that does not fault is followed this far out
MaxStray == 2

\* the byte at offset k of the code region (fresh pages read as zero)
CodeByte(k) == IF k < Len(code) THEN code[k + 1] ELSE 0

CodeBytes(k, n) == [j \in 1..n |-> CodeByte(k + j - 1)]

Ins(op, len, imm) == [op |-> op, len |-> len, imm |-> imm]

Decode(rip) ==
    LET b(k) == CodeByte(rip + k) IN
    CASE b(0) = 85 -> Ins("push_rbp", 1, 0)
      [] b(0) = 72 /\ b(1) = 137 /\ b(2) = 229 -> Ins("mov_rbp_rsp", 3, 0)
      [] b(0) = 65 /\ b(1) = 84 -> Ins("push_r12", 2, 0)
      [] b(0) = 65 /\ b(1) = 85 -> Ins("push_r13", 2, 0)
      [] b(0) = 73 /\ b(1) = 137 /\ b(2) = 252 -> Ins("mov_r12_rdi", 3, 0)
      [] b(0) = 69 /\ b(1) = 49 /\ b(2) = 237 -> Ins("xor_r13d", 3, 0)
      [] b(0) = 65 /\ b(1) = 93 -> Ins("pop_r13", 2, 0)
      [] b(0) = 65 /\ b(1) = 92 -> Ins("pop_r12", 2, 0)
      [] b(0) = 93 -> Ins("pop_rbp", 1, 0)
      [] b(0) = 195 -> Ins("ret", 1, 0)
      [] b(0) = 67 /\ b(1) = 254 /\ b(2) = 4 /\ b(3) = 44 -> Ins("add_cell", 4, 1)
      [] b(0) = 67 /\ b(1) = 254 /\ b(2) = 12 /\ b(3) = 44 -> Ins("add_cell", 4, -1)
      [] b(0) = 67 /\ b(1) = 128 /\ b(2) = 4 /\ b(3) = 44 -> Ins("add_cell", 5, b(4))
      [] b(0) = 67 /\ b(1) = 128 /\ b(2) = 44 /\ b(3) = 44 -> Ins("add_cell", 5, -b(4))
      [] b(0) = 67 /\ b(1) = 128 /\ b(2) = 60 /\ b(3) = 44 -> Ins("cmp_cell", 5, b(4))
      [] b(0) = 73 /\ b(1) = 255 /\ b(2) = 197 -> Ins("add_r13", 3, 1)
      [] b(0) = 73 /\ b(1) = 255 /\ b(2) = 205 -> Ins("add_r13", 3, -1)
      [] b(0) = 73 /\ b(1) = 131 /\ b(2) = 197 -> Ins("add_r13", 4, S8(b(3)))
      [] b(0) = 73 /\ b(1) = 131 /\ b(2) = 237 -> Ins("add_r13", 4, -S8(b(3)))
      [] b(0) = 73 /\ b(1) = 129 /\ b(2) = 197 ->
            Ins("add_r13", 7, S32(CodeBytes(rip + 3, 4)))
      [] b(0) = 73 /\ b(1) = 129 /\ b(2) = 237 ->
            Ins("add_r13", 7, -S32(CodeBytes(rip + 3, 4)))
      [] b(0) = 67 /\ b(1) = 15 /\ b(2) = 182 /\ b(3) = 60 /\ b(4) = 44 ->
            Ins("movzx_edi_cell", 5, 0)
      [] b(0) = 72 /\ b(1) = 184 -> Ins("mov_rax_imm64", 10, 0)
      [] b(0) = 255 /\ b(1) = 208 -> Ins("call_rax", 2, 0)
      [] b(0) = 67 /\ b(1) = 136 /\ b(2) = 4 /\ b(3) = 44 -> Ins("mov_cell_al", 4, 0)
      [] b(0) = 15 /\ b(1) = 132 -> Ins("je", 6, S32(CodeBytes(rip + 2, 4)))
      [] b(0) = 15 /\ b(1) = 133 -> Ins("jne", 6, S32(CodeBytes(rip + 2, 4)))
      [] OTHER -> Ins("ud", 1, 0)

\* the cell [r12+r13] addresses, as an offset into the tape
CellIndex == cpu.r12.off + cpu.r13.off

CellAddressable == cpu.r12.sym = "tape" /\ cpu.r13.sym = "abs"

InTape(idx) == idx >= 0 /\ idx < TAPE_SIZE

CellAt(idx) == IF idx \in DOMAIN tape THEN tape[idx] ELSE 0

TapeWith(idx, v) ==
    [k \in (DOMAIN tape) \cup {idx} |-> IF k = idx THEN v ELSE tape[k]]

\* add/sub/inc/dec byte [r12+r13]: 8-bit arithmetic
CellAdd(old, imm) == (old + imm) % 256

Advance(c, ins) == [c EXCEPT !.rip = c.rip + ins.len]

Killed ==
    /\ pc' = "killed"
    /\ UNCHANGED <<cpu, tape, stdin_read, output>>

\* the values a read of the current cell may deliver
CellReads ==
    IF InTape(CellIndex) THEN {CellAt(CellIndex)} ELSE StrayBytes

\* a store of v to the current cell; outside the tape it lands elsewhere
CellWrite(v) == IF InTape(CellIndex) THEN TapeWith(CellIndex, v) ELSE tape

\* whether the not-faulting outcome of an access to the cell is followed
CellFollowed ==
    /\ CellAddressable
    /\ tape_map = "mapped"
    /\ CellIndex >= -MaxStray
    /\ CellIndex < TAPE_SIZE + MaxStray

\* whether an access to the current cell may fault
CellMayFault == ~CellAddressable \/ tape_map # "mapped" \/ ~InTape(CellIndex)

AtEof == Len(stdin_read) > 0 /\ stdin_read[Len(stdin_read)] = EOF

\* what the next getchar may return
GetcharReturns ==
    IF AtEof \/ Len(stdin_read) >= MaxInput THEN {EOF}
    ELSE InputBytes \cup {EOF}

ExecStep ==
    /\ pc = "exec"
    /\ IF ~(code_map = "mapped" /\ "X" \in code_prot
            /\ cpu.rip >= 0 /\ cpu.rip < CODE_SIZE)
       THEN Killed
       ELSE LET ins == Decode(cpu.rip)
                nxt == Advance(cpu, ins)
            IN
            CASE ins.op = "push_rbp" ->
                   /\ cpu' = [nxt EXCEPT !.stack = Append(cpu.stack, cpu.rbp)]
                   /\ UNCHANGED <<pc, tape, stdin_read, output>>
              [] ins.op = "push_r12" ->
                   /\ cpu' = [nxt EXCEPT !.stack = Append(cpu.stack, cpu.r12)]
                   /\ UNCHANGED <<pc, tape, stdin_read, output>>
              [] ins.op = "push_r13" ->
                   /\ cpu' = [nxt EXCEPT !.stack = Append(cpu.stack, cpu.r13)]
                   /\ UNCHANGED <<pc, tape, stdin_read, output>>
              [] ins.op = "mov_rbp_rsp" ->
                   /\ cpu' = [nxt EXCEPT !.rbp = V("stack", Len(cpu.stack))]
                   /\ UNCHANGED <<pc, tape, stdin_read, output>>
              [] ins.op = "mov_r12_rdi" ->
                   /\ cpu' = [nxt EXCEPT !.r12 = cpu.rdi]
                   /\ UNCHANGED <<pc, tape, stdin_read, output>>
              [] ins.op = "xor_r13d" ->
                   /\ cpu' = [nxt EXCEPT !.r13 = V("abs", 0), !.zf = TRUE]
                   /\ UNCHANGED <<pc, tape, stdin_read, output>>
              [] ins.op \in {"pop_r13", "pop_r12", "pop_rbp"} ->
                   IF cpu.stack = <<>> THEN Killed
                   ELSE LET top == cpu.stack[Len(cpu.stack)]
                            rest == SubSeq(cpu.stack, 1, Len(cpu.stack) - 1)
                        IN  /\ cpu' = [nxt EXCEPT
                                  !.stack = rest,
                                  !.r13 = IF ins.op = "pop_r13" THEN top ELSE @,
                                  !.r12 = IF ins.op = "pop_r12" THEN top ELSE @,
                                  !.rbp = IF ins.op = "pop_rbp" THEN top ELSE @]
                            /\ UNCHANGED <<pc, tape, stdin_read, output>>
              [] ins.op = "ret" ->
                   IF cpu.stack = <<>> \/ cpu.stack[Len(cpu.stack)] # V("ret_main", 0)
                   THEN Killed
                   ELSE /\ cpu' = [cpu EXCEPT
                              !.stack = SubSeq(cpu.stack, 1, Len(cpu.stack) - 1)]
                        /\ pc' = "cleanup"
                        /\ UNCHANGED <<tape, stdin_read, output>>
              [] ins.op = "add_r13" ->
                   /\ cpu' = [nxt EXCEPT
                         !.r13 = V(cpu.r13.sym, cpu.r13.off + ins.imm),
                         !.zf = (cpu.r13.off + ins.imm = 0)]
                   /\ UNCHANGED <<pc, tape, stdin_read, output>>
              [] ins.op = "add_cell" ->
                   \/ /\ CellMayFault
                      /\ Killed
                   \/ /\ CellFollowed
                      /\ \E old \in CellReads :
                           LET v == CellAdd(old, ins.imm)
                           IN  /\ tape' = CellWrite(v)
                               /\ cpu' = [nxt EXCEPT !.zf = (v = 0)]
                      /\ UNCHANGED <<pc, stdin_read, output>>
              [] ins.op = "cmp_cell" ->
                   \/ /\ CellMayFault
                      /\ Killed
                   \/ /\ CellFollowed
                      /\ \E old \in CellReads :
                           cpu' = [nxt EXCEPT !.zf = (old = ins.imm)]
                      /\ UNCHANGED <<pc, tape, stdin_read, output>>
              [] ins.op = "movzx_edi_cell" ->
                   \/ /\ CellMayFault
                      /\ Killed
                   \/ /\ CellFollowed
                      /\ \E old \in CellReads :
                           cpu' = [nxt EXCEPT !.rdi = V("abs", old)]
                      /\ UNCHANGED <<pc, tape, stdin_read, output>>
              [] ins.op = "mov_cell_al" ->
                   \/ /\ CellMayFault
                      /\ Killed
                   \/ /\ CellFollowed
                      /\ tape' = CellWrite(cpu.rax[1])
                      /\ cpu' = nxt
                      /\ UNCHANGED <<pc, stdin_read, output>>
              [] ins.op = "mov_rax_imm64" ->
                   /\ cpu' = [nxt EXCEPT !.rax = CodeBytes(cpu.rip + 2, 8)]
                   /\ UNCHANGED <<pc, tape, stdin_read, output>>
              [] ins.op = "call_rax" ->
                   IF cpu.rax = putchar_addr(libc)
                   THEN /\ Len(output) < MaxOut
                        /\ output' = Append(output, cpu.rdi.off % 256)
                        /\ cpu' = [nxt EXCEPT !.rax = LE64(cpu.rdi.off % 256),
                                              !.rdi = V("clobbered", 0)]
                        /\ UNCHANGED <<pc, tape, stdin_read>>
                   ELSE IF cpu.rax = getchar_addr(libc)
                   THEN /\ \E r \in GetcharReturns :
                             /\ stdin_read' = IF AtEof THEN stdin_read
                                              ELSE Append(stdin_read, r)
                             /\ cpu' = [nxt EXCEPT !.rax = LE64(r),
                                                   !.rdi = V("clobbered", 0)]
                        /\ UNCHANGED <<pc, tape, output>>
                   ELSE Killed
              [] ins.op = "je" ->
                   /\ cpu' = [nxt EXCEPT
                         !.rip = IF cpu.zf THEN nxt.rip + ins.imm ELSE nxt.rip]
                   /\ UNCHANGED <<pc, tape, stdin_read, output>>
              [] ins.op = "jne" ->
                   /\ cpu' = [nxt EXCEPT
                         !.rip = IF ~cpu.zf THEN nxt.rip + ins.imm ELSE nxt.rip]
                   /\ UNCHANGED <<pc, tape, stdin_read, output>>
              [] OTHER -> Killed
    /\ UNCHANGED <<code_map, code_prot, tape_map, valid, exit_status, events>>
    /\ UNCHANGED_in /\ UNCHANGED_compile

(***************************************************************************)
(* The process, and compile called on its own.                             *)
(***************************************************************************)
Next ==
    \/ Validate
    \/ MmapCode
    \/ MmapTape
    \/ CompileBegin
    \/ CompileStep
    \/ CompileEnd
    \/ CompileCheck
    \/ Mprotect
    \/ Call
    \/ ExecStep
    \/ Cleanup

Spec == Init /\ [][Next]_vars

\* the processor keeps executing the JIT'd code, and main runs on when it returns
FairSpec == Spec /\ WF_vars(ExecStep) /\ WF_vars(Cleanup)

\* compile(src, len) called with both regions mapped, on any source
InitCompile ==
    /\ InitCommon
    /\ InitParsed(Scripts)
    /\ pc = "compile_begin"
    /\ code_map = "mapped"
    /\ code_prot = {"R", "W"}
    /\ tape_map = "mapped"
    /\ events = <<"mmap_code", "mmap_tape">>

NextCompile ==
    \/ CompileBegin
    \/ CompileStep
    \/ CompileEnd

SpecCompile == InitCompile /\ [][NextCompile]_vars

\* sources for compile that end in each of its ways: success, the
\* "unmatched ]" return, and the exits of check_space and vlog_push
FairScripts ==
    BracketScripts \cup LoopScripts \cup FillScripts
    \cup {CatProg, AddProg, FiveDot}

InitFairCompile ==
    /\ InitCommon
    /\ InitParsed(FairScripts)
    /\ pc = "compile_begin"
    /\ code_map = "mapped"
    /\ code_prot = {"R", "W"}
    /\ tape_map = "mapped"
    /\ events = <<"mmap_code", "mmap_tape">>

\* compile is sequential code: once called it keeps running
FairCompile == InitFairCompile /\ [][NextCompile]_vars /\ WF_vars(NextCompile)

\* main from its first line, on any command line
InitArgs ==
    /\ InitCommon
    /\ argv \in ArgLists
    /\ verbose = FALSE
    /\ src = <<>>
    /\ diag = <<>>
    /\ source = "none"
    /\ pc = "parse_args"
    /\ code_map = "none"
    /\ code_prot = {}
    /\ tape_map = "none"
    /\ events = <<>>

NextArgs ==
    \/ ParseArgs
    \/ Next

SpecArgs == InitArgs /\ [][NextArgs]_vars

\* a script whose log outgrows its first allocation: 70 chunks
LogGrowScript == [k \in 1..70 |-> IF k % 2 = 1 THEN "+" ELSE ">"]

TwiceScripts == ShortScripts \cup LoopScripts \cup {LogGrowScript, AddProg, CatProg}

\* the program is started again on the same source, once compile has
\* returned: a new process, with its own verbosity flag and its own libc
\* load address; what the first process emitted is kept in prev
Reinvoke ==
    /\ pc = "compiled"
    /\ compile_rc = "ok"
    /\ ~prev.done
    /\ prev' = [done |-> TRUE, code |-> code, code_len |-> code_len,
                libc |-> libc, verbose |-> verbose]
    /\ verbose' \in BOOLEAN
    /\ libc' \in LibcBases
    /\ argv' = ArgvFor(verbose', src)
    /\ pc' = "validate"
    /\ exit_status' = -1
    /\ code_map' = "none"
    /\ code_prot' = {}
    /\ tape_map' = "none"
    /\ code' = <<>>
    /\ code_len' = 0
    /\ vlog' = <<>>
    /\ vlog_cap' = 0
    /\ i' = 0
    /\ depth' = 0
    /\ fixups' = <<>>
    /\ compile_rc' = "none"
    /\ valid' = NotValidated
    /\ fatal' = NoFatal
    /\ blk' = <<>>
    /\ events' = <<>>
    /\ listing' = <<>>
    /\ UNCHANGED <<src, diag, source>>
    /\ UNCHANGED_run

InitTwice ==
    /\ InitCommon
    /\ InitParsed(TwiceScripts)
    /\ pc = "validate"
    /\ code_map = "none"
    /\ code_prot = {}
    /\ tape_map = "none"
    /\ events = <<>>

NextTwice ==
    \/ Validate
    \/ MmapCode
    \/ MmapTape
    \/ CompileBegin
    \/ CompileStep
    \/ CompileEnd
    \/ Reinvoke

SpecTwice == InitTwice /\ [][NextTwice]_vars

(***************************************************************************)
(* Notions the properties are stated in.                                   *)
(***************************************************************************)
InEvents(e) == \E k \in 1..Len(events) : events[k] = e

Flipped == InEvents("mprotect")

\* the heights of s: hs[k + 1] is the number of '[' minus the number of ']'
\* among the first k characters
RECURSIVE HeightsFrom(_, _, _, _)
HeightsFrom(s, lo, hi, base) ==
    IF lo >= hi THEN <<>>
    ELSE IF hi = lo + 1
    THEN <<base + (IF s[hi] = "[" THEN 1 ELSE IF s[hi] = "]" THEN -1 ELSE 0)>>
    ELSE LET mid == (lo + hi) \div 2
             left == HeightsFrom(s, lo, mid, base)
         IN  left \o HeightsFrom(s, mid, hi, left[Len(left)])

Heights(s) == <<0>> \o HeightsFrom(s, 0, Len(s), 0)

BalancedH(s, hs) == hs[Len(s) + 1] = 0 /\ \A k \in 1..(Len(s) + 1) : hs[k] >= 0

MaxDepthH(hs) == CHOOSE d \in {hs[k] : k \in 1..Len(hs)} :
                    \A k \in 1..Len(hs) : hs[k] <= d

\* the positions (from 1) of the ']' that close nothing
UnmatchedCloses(s, hs) ==
    {p \in 1..Len(s) : s[p] = "]" /\ \A q \in 1..p : hs[q] > hs[p + 1]}

\* the positions (from 1) of the '[' that nothing closes
NeverClosed(s, hs) ==
    {p \in 1..Len(s) : s[p] = "[" /\ \A q \in p..Len(s) : hs[q + 1] >= hs[p + 1]}

Least(S) == CHOOSE x \in S : \A y \in S : x <= y

\* '[' at p and ']' at q (positions from 1) delimit one loop
Matching(s, hs, p, q) ==
    /\ s[p] = "["
    /\ s[q] = "]"
    /\ p < q
    /\ hs[q + 1] = hs[p]
    /\ \A r \in p..(q - 1) : hs[r + 1] > hs[p]

\* validate_brackets has just returned
JustValidated == valid.done /\ code_map = "none" /\ pc \in {"mmap_code", "exit"}

(***************************************************************************)
(* C1: the code region is never writable and executable at once: from its  *)
(* acquisition to the permission flip it is writable and not executable,   *)
(* from the flip to its release executable and not writable.               *)
(***************************************************************************)
C1_WriteXorExecute ==
    /\ ~({"W", "X"} \subseteq code_prot)
    /\ (code_map = "mapped" /\ ~Flipped) =>
           ("W" \in code_prot /\ "X" \notin code_prot)
    /\ (code_map = "mapped" /\ Flipped) =>
           ("X" \in code_prot /\ "W" \notin code_prot)
    /\ code_map # "mapped" => code_prot = {}

C1_Witness ==
    /\ pc = "exec"
    /\ Flipped
    /\ cpu.rip > 0
    /\ code_prot = {"R", "X"}

(***************************************************************************)
(* C2: the entry point is called at most once, and only after validation,  *)
(* the two acquisitions, the complete compilation and the permission flip  *)
(* have succeeded in this order; after the flip no byte of the code buffer *)
(* and no cursor changes; after a failure the entry point is never called. *)
(***************************************************************************)
CallOrder == <<"validate", "mmap_code", "mmap_tape", "compile", "mprotect", "call">>

C2_CallState ==
    /\ Cardinality({k \in 1..Len(events) : events[k] = "call"}) <= 1
    /\ Len(events) <= Len(CallOrder) =>
           events = SubSeq(CallOrder, 1, Len(events))
    /\ Len(events) > Len(CallOrder) =>
           events = CallOrder \o <<"cleanup">>
    /\ pc \in {"exec", "cleanup", "killed"} => InEvents("call")
    /\ InEvents("call") =>
           /\ valid.done /\ valid.rc = 0
           /\ compile_rc = "ok"
           /\ i = Len(src)
           /\ fatal.kind = "none"
           /\ code_len = Len(code)
           /\ SubSeq(code, code_len - 5, code_len) = epilogue
    /\ exit_status = 1 => ~InEvents("call")
    /\ InEvents("mprotect") => code_map # "none" /\ tape_map # "none"

C2_CodeFrozen == Flipped => (code' = code /\ code_len' = code_len)

C2_CallOnlyAfterFlip == [](C2_CallState) /\ [][C2_CodeFrozen]_vars

C2_Witness ==
    /\ pc = "cleanup"
    /\ src = AddProg
    /\ InEvents("call")

(***************************************************************************)
(* C3 as claimed: validate_brackets succeeds on every balanced script      *)
(* nested at most MAX_NESTING deep; on every script with an unmatched ']'  *)
(* it fails naming the first ']' that closes nothing; on every script with *)
(* an unmatched '[' it fails naming the first '[' that is never closed,    *)
(* and the number of unclosed '['.                                         *)
(***************************************************************************)
C3_ValidatorAsClaimed ==
    JustValidated =>
        LET hs == Heights(src)
            uc == UnmatchedCloses(src, hs)
            nc == NeverClosed(src, hs)
        IN  /\ (BalancedH(src, hs) /\ MaxDepthH(hs) <= MAX_NESTING) => valid.rc = 0
            /\ uc # {} =>
                  (valid.rc = -1 /\ valid.err = "close" /\ valid.pos = Least(uc) - 1)
            /\ nc # {} =>
                  /\ valid.rc = -1
                  /\ valid.err = "open"
                  /\ valid.pos = Least(nc) - 1
                  /\ valid.n = Cardinality(nc)

(***************************************************************************)
(* C3 amended: as above, but the unmatched '[' is the one reported only on *)
(* a script that has no unmatched ']' (an unmatched ']' always comes first *)
(* and is what the scan reports).                                          *)
(***************************************************************************)
C3_Validator ==
    JustValidated =>
        LET hs == Heights(src)
            uc == UnmatchedCloses(src, hs)
            nc == NeverClosed(src, hs)
        IN  /\ (BalancedH(src, hs) /\ MaxDepthH(hs) <= MAX_NESTING) => valid.rc = 0
            /\ uc # {} =>
                  (valid.rc = -1 /\ valid.err = "close" /\ valid.pos = Least(uc) - 1)
            /\ (nc # {} /\ uc = {}) =>
                  /\ valid.rc = -1
                  /\ valid.err = "open"
                  /\ valid.pos = Least(nc) - 1
                  /\ valid.n = Cardinality(nc)

C3_Witness ==
    /\ JustValidated
    /\ src = <<"[", "]", "[", "[", "]", "[">>
    /\ valid.err = "open"
    /\ valid.pos = 2
    /\ valid.n = 2

(***************************************************************************)
(* C4: a balanced script nested exactly MAX_NESTING deep passes validation *)
(* and compile does not fail on it (it returns 0 when it reaches the end   *)
(* of the source, and stores no fixup past the array); a balanced script   *)
(* nested MAX_NESTING + 1 deep fails validation, and then no byte has been *)
(* emitted and no region acquired.                                         *)
(***************************************************************************)
C4_NestingBoundary ==
    (valid.done /\ pc \in {"mmap_code", "exit", "compiled", "killed"}) =>
        LET hs == Heights(src) IN
        BalancedH(src, hs) =>
            /\ MaxDepthH(hs) = MAX_NESTING =>
                  /\ valid.rc = 0
                  /\ compile_rc # "fail"
                  /\ pc = "killed" => InEvents("call")
                  /\ Len(fixups) <= MAX_NESTING
                  /\ pc = "compiled" =>
                        (compile_rc = "ok" /\ i = Len(src) /\ depth = 0)
            /\ MaxDepthH(hs) = MAX_NESTING + 1 =>
                  /\ valid.rc = -1
                  /\ valid.err = "depth"
                  /\ pc = "exit"
                  /\ exit_status = 1
                  /\ code = <<>>
                  /\ code_len = 0
                  /\ code_map = "none"
                  /\ tape_map = "none"

C4_Witness ==
    /\ pc = "compiled"
    /\ compile_rc = "ok"
    /\ src = Nest(MAX_NESTING)
    /\ Len(fixups) = MAX_NESTING
    /\ code_len = 14 + 22 * MAX_NESTING + 6

(***************************************************************************)
(* C5: in every successfully compiled script, for every loop, the je of    *)
(* its '[' targets (relative to the end of its rel32) the first byte       *)
(* emitted after the block of the matching ']', and the jne of its ']'     *)
(* targets the first byte of the cmp of the matching '['.                  *)
(***************************************************************************)
\* the offset of the first byte emitted after the chunk of the character at q
AfterChunk(q) == IF q < Len(src) THEN blk[q + 1] ELSE code_len - Len(epilogue)

\* where the rel32 jump whose opcode starts at offset j lands
JumpTarget(j) == (j + 6) + S32(CodeBytes(j + 2, 4))

C5_LoopFixupsExact ==
    (pc = "compiled" /\ compile_rc = "ok") =>
        LET hs == Heights(src) IN
        \A p, q \in 1..Len(src) :
            Matching(src, hs, p, q) =>
                /\ CodeBytes(blk[p], 7) = <<67, 128, 60, 44, 0, 15, 132>>
                /\ CodeBytes(blk[q], 7) = <<67, 128, 60, 44, 0, 15, 133>>
                /\ JumpTarget(blk[p] + 5) = AfterChunk(q)
                /\ JumpTarget(blk[q] + 5) = blk[p]

C5_Witness ==
    /\ pc = "compiled"
    /\ compile_rc = "ok"
    /\ src = <<"[", "[", "]", "]", "[", "]">>
    /\ JumpTarget(14 + 5) = 14 + 44
    /\ JumpTarget(14 + 33 + 5) = 14

(***************************************************************************)
(* C6 as claimed: when compile reaches the end of the source with a        *)
(* non-empty fixup stack it does not return success.                       *)
(***************************************************************************)
C6_UnresolvedOpenIsFatal ==
    ~(pc = "compiled" /\ i >= Len(src) /\ depth > 0 /\ compile_rc = "ok")

(***************************************************************************)
(* C7 as claimed, for the exit paths it names (normal exit, code-buffer    *)
(* overflow, acquisition, compilation and permission-flip failures): when  *)
(* the process exits, every region it acquired has been unmapped, and none *)
(* it did not acquire has been.                                            *)
(***************************************************************************)
C7_RegionsReleasedOnExit ==
    (pc = "exit" /\ fatal.kind # "realloc") =>
        /\ code_map \in {"none", "unmapped"}
        /\ tape_map \in {"none", "unmapped"}

(***************************************************************************)
(* C8: the write cursor never exceeds CODE_SIZE and no byte is stored at   *)
(* or beyond it; an emit call that would exceed it ends the process with   *)
(* status 1, reporting the bytes used and needed, and stores nothing.      *)
(***************************************************************************)
C8_CursorWithinCapacity ==
    /\ code_len <= CODE_SIZE
    /\ Len(code) <= CODE_SIZE
    /\ Len(code) = code_len
    /\ fatal.kind = "overflow" =>
           /\ pc = "exit"
           /\ exit_status = 1
           /\ compile_rc = "none"
           /\ fatal.used = code_len
           /\ fatal.need >= 1
           /\ fatal.used + fatal.need > CODE_SIZE
    /\ (pc = "exit" /\ exit_status = 1 /\ fatal.kind = "none") =>
           (code_len = 0 \/ compile_rc # "none")

C8_Witness ==
    /\ fatal.kind = "overflow"
    /\ fatal.need = 8
    /\ fatal.used > CODE_SIZE - 8
    /\ fatal.used < CODE_SIZE

(***************************************************************************)
(* C9 as claimed: the code compiled from ,[.,] writes the bytes it reads,  *)
(* in order and unchanged, and once getchar has reported end of stream it  *)
(* writes nothing more (it returns).                                       *)
(***************************************************************************)
C9_CatStopsAtEof ==
    (src = CatProg /\ AtEof) =>
        output = SubSeq(stdin_read, 1, Len(stdin_read) - 1)

(***************************************************************************)
(* C10: for a run of '+'/'-' (of '>'/'<'), the one instruction compile     *)
(* emits leaves the cell (the offset register) as one inc/dec instruction  *)
(* per character would, wraparound of the cell included.                   *)
(***************************************************************************)
IsRunOf(s, cs) == Len(s) >= 1 /\ \A k \in 1..Len(s) : s[k] \in cs

\* the cell after one inc/dec byte [r12+r13] per character of s[lo+1 .. hi]
RECURSIVE NaiveCell(_, _, _, _)
NaiveCell(s, lo, hi, v) ==
    IF lo >= hi THEN v
    ELSE IF hi = lo + 1 THEN CellAdd(v, IF s[hi] = "+" THEN 1 ELSE -1)
    ELSE LET mid == (lo + hi) \div 2
             left == NaiveCell(s, lo, mid, v)
         IN  IF left >= 0 THEN NaiveCell(s, mid, hi, left) ELSE left

\* r13 after one inc/dec r13 per character of s[lo+1 .. hi]
RECURSIVE NaivePtr(_, _, _, _)
NaivePtr(s, lo, hi, v) ==
    IF lo >= hi THEN v
    ELSE IF hi = lo + 1 THEN v + (IF s[hi] = ">" THEN 1 ELSE -1)
    ELSE LET mid == (lo + hi) \div 2
             left == NaivePtr(s, lo, mid, v)
         IN  IF left = left THEN NaivePtr(s, mid, hi, left) ELSE left

BodyDone == pc = "exec" /\ cpu.rip = code_len - Len(epilogue)

C10_RunCollapseTransparent ==
    BodyDone =>
        /\ IsRunOf(src, {"+", "-"}) =>
              CellAt(0) = NaiveCell(src, 0, Len(src), 0)
        /\ (Len(src) >= 2 /\ src[1] = "," /\ IsRunOf(Tail(src), {"+", "-"})) =>
              CellAt(0) = NaiveCell(src, 1, Len(src), U8(stdin_read[1]))
        /\ IsRunOf(src, {">", "<"}) =>
              cpu.r13 = V("abs", NaivePtr(src, 0, Len(src), 0))

C10_Witness ==
    /\ BodyDone
    /\ src = Rep("+", 130)
    /\ CellAt(0) = 130
    /\ code_len = 14 + 5 + 6

(***************************************************************************)
(* C11 as claimed: the code compiled from 130 consecutive '+', run on a    *)
(* zero cell, leaves the cell with value 2.                                *)
(***************************************************************************)
C11_Run130LeavesTwo ==
    (BodyDone /\ src = Rep("+", 130)) => CellAt(0) = 2

(***************************************************************************)
(* C11 amended: the code compiled from 130 consecutive '+', run on a zero  *)
(* cell, leaves the cell with value 130 (compile emits sub 126); the value *)
(* 2 is what 258 consecutive '+' leave.                                    *)
(***************************************************************************)
C11_Run130Leaves130 ==
    /\ (BodyDone /\ src = Rep("+", 130)) => CellAt(0) = 130
    /\ (BodyDone /\ src = Rep("+", 258)) => CellAt(0) = 2
    /\ (pc = "compiled" /\ compile_rc = "ok" /\ src = Rep("+", 130)) =>
           CodeBytes(Len(prologue), 5) = <<67, 128, 44, 44, 126>>

C11_Witness ==
    /\ BodyDone
    /\ src = Rep("+", 130)
    /\ CodeBytes(Len(prologue), 5) = <<67, 128, 44, 44, 126>>
    /\ tape = (0 :> 130)

(***************************************************************************)
(* C12: the process exits with status 0 exactly when validation, both      *)
(* acquisitions, compilation, the permission flip and the call all         *)
(* succeeded, and with status 1 after a failure of validation, of          *)
(* compilation (overflow included), of an acquisition or of the flip.      *)
(***************************************************************************)
AllSucceeded ==
    /\ valid.done
    /\ valid.rc = 0
    /\ compile_rc = "ok"
    /\ fatal = NoFatal
    /\ events = CallOrder \o <<"cleanup">>

C12_ExitStatus ==
    pc = "exit" =>
        /\ exit_status \in {0, 1}
        /\ exit_status = 0 <=> AllSucceeded
        /\ (valid.done /\ valid.rc # 0) => exit_status = 1
        /\ fatal.kind \in {"overflow", "realloc"} => exit_status = 1
        /\ compile_rc = "fail" => exit_status = 1
        /\ ~InEvents("mmap_code") => exit_status = 1
        /\ ~InEvents("mmap_tape") => exit_status = 1
        /\ ~InEvents("mprotect") => exit_status = 1

C12_Witness ==
    /\ pc = "exit"
    /\ exit_status = 0
    /\ AllSucceeded
    /\ src = FiveDot
    /\ output = <<5>>

(***************************************************************************)
(* C13 as claimed: a command line that gives both a literal (-e) and a     *)
(* file path, one that gives neither, and one whose -e lacks its argument, *)
(* is each rejected with a non-zero exit status and the usage message on   *)
(* stderr, before any source is read or memory acquired.                   *)
(***************************************************************************)
\* the number of -e directly before position k of av
RECURSIVE DashEsBefore(_, _)
DashEsBefore(av, k) ==
    IF k > 1 /\ av[k - 1] = OptE THEN 1 + DashEsBefore(av, k - 1) ELSE 0

\* the argument at position k is the text that goes with a -e
IsLiteral(av, k) == DashEsBefore(av, k) % 2 = 1

IsPath(av, k) == ~IsLiteral(av, k) /\ (Len(av[k]) = 0 \/ av[k][1] # "-")

GivesLiteral(av) == \E k \in 1..Len(av) : IsLiteral(av, k)

GivesPath(av) == \E k \in 1..Len(av) : IsPath(av, k)

LacksLiteral(av) ==
    Len(av) >= 1 /\ av[Len(av)] = OptE /\ ~IsLiteral(av, Len(av))

BadInvocation(av) ==
    \/ GivesLiteral(av) /\ GivesPath(av)
    \/ ~GivesLiteral(av) /\ ~GivesPath(av)
    \/ LacksLiteral(av)

C13_BadInvocationGetsUsage ==
    (pc # "parse_args" /\ BadInvocation(argv)) =>
        /\ pc = "exit"
        /\ exit_status = 1
        /\ \E k \in 1..Len(diag) : diag[k] = "usage"
        /\ source = "none"
        /\ code_map = "none"
        /\ tape_map = "none"
        /\ events = <<>>

(***************************************************************************)
(* C14: when validation fails, the process exits with neither region       *)
(* acquired and no byte emitted; no region is acquired before validation   *)
(* has succeeded, and the step that validates changes nothing but what it  *)
(* returns and reports.                                                    *)
(***************************************************************************)
C14_FailedState ==
    /\ (valid.done /\ valid.rc # 0) =>
           /\ pc = "exit"
           /\ exit_status = 1
           /\ code_map = "none"
           /\ tape_map = "none"
           /\ code_prot = {}
           /\ code = <<>>
           /\ code_len = 0
           /\ vlog = <<>>
           /\ events = <<"validate">>
    /\ (code_map # "none" \/ tape_map # "none" \/ code_len > 0) =>
           (valid.done /\ valid.rc = 0)

C14_ValidatorPure ==
    valid' # valid =>
        UNCHANGED <<src, code_map, code_prot, tape_map, code, code_len, vlog,
                    vlog_cap, tape, output, stdin_read, listing>>

C14_ValidationBeforeAcquisition == [](C14_FailedState) /\ [][C14_ValidatorPure]_vars

C14_Witness ==
    /\ valid.done
    /\ valid.rc = -1
    /\ valid.err = "depth"
    /\ src = Nest(MAX_NESTING + 1)
    /\ pc = "exit"
    /\ code_map = "none"

(***************************************************************************)
(* C15: the code compiled from ++>+++++<[->+<]>. gives putchar the byte 7  *)
(* exactly once and nothing else, and then returns, leaving the counter    *)
(* cell at 0 (and the accumulator at 7).                                   *)
(***************************************************************************)
Returned == pc = "cleanup" \/ (pc = "exit" /\ InEvents("cleanup"))

C15_AddState ==
    src = AddProg =>
        /\ pc # "killed"
        /\ output \in {<<>>, <<7>>}
        /\ stdin_read = <<>>
        /\ Returned => (output = <<7>> /\ CellAt(0) = 0 /\ CellAt(1) = 7)

C15_AddReturns == (src = AddProg /\ pc = "exec") ~> (Returned /\ output = <<7>>)

C15_AdditionOutputsSeven == [](C15_AddState) /\ C15_AddReturns

C15_Witness ==
    /\ src = AddProg
    /\ pc = "cleanup"
    /\ output = <<7>>
    /\ tape = (0 :> 0 @@ 1 :> 7)

(***************************************************************************)
(* C16 as claimed: two invocations of the program on the same source emit  *)
(* the same code, byte for byte and of the same length, also for a source  *)
(* with '.' or ',', whose code holds the addresses of putchar and getchar. *)
(***************************************************************************)
BothCompiled == prev.done /\ pc = "compiled" /\ compile_rc = "ok"

SameCode == code = prev.code /\ code_len = prev.code_len

C16_SameBytesEveryInvocation == BothCompiled => SameCode

(***************************************************************************)
(* C17: for every source, the emitted bytes and the final code length are  *)
(* the same with the verbosity flag on and off (in two processes that have *)
(* libc at the same address).                                              *)
(***************************************************************************)
C17_VerboseTransparent ==
    (BothCompiled /\ libc = prev.libc) => SameCode

C17_Witness ==
    /\ BothCompiled
    /\ libc = prev.libc
    /\ verbose
    /\ ~prev.verbose
    /\ src = LogGrowScript
    /\ Len(vlog) = 72
    /\ vlog_cap = 2 * VlogInitCap
    /\ SameCode

(***************************************************************************)
(* C18 as claimed: with -v, the listing printed before execution has one   *)
(* line per emitted chunk (prologue, each operation, epilogue), with the   *)
(* chunk's offset, all of its bytes and its description: the number of     *)
(* bytes printed on a line is the length of its log entry.                 *)
(***************************************************************************)
Printed == verbose /\ InEvents("compile")

\* the log entries tile the emitted code, in order
LogTilesCode ==
    /\ Len(vlog) >= 2
    /\ vlog[1].offset = 0
    /\ \A k \in 1..(Len(vlog) - 1) : vlog[k].offset + vlog[k].len = vlog[k + 1].offset
    /\ vlog[Len(vlog)].offset + vlog[Len(vlog)].len = code_len

C18_ListingComplete ==
    Printed =>
        /\ LogTilesCode
        /\ Len(listing) = Len(vlog)
        /\ \A k \in 1..Len(listing) :
              /\ listing[k].offset = vlog[k].offset
              /\ listing[k].desc = vlog[k].desc
              /\ Len(listing[k].bytes) = vlog[k].len
              /\ listing[k].bytes = CodeBytes(vlog[k].offset, vlog[k].len)

(***************************************************************************)
(* C19 as claimed: every construct of a compiled script emits the number   *)
(* of bytes of the README's encoding table: a cell run 4 bytes for net     *)
(* delta +1 or -1 and 5 bytes for any other non-zero net delta; a pointer  *)
(* run 3 bytes for net +1 or -1, 4 for a magnitude of 2..127 and 7 for a   *)
(* larger one; '.' 17, ',' 16, '[' 11 and ']' 11 bytes; and the code is    *)
(* 14 + 6 bytes longer than the sum of these.                              *)
(***************************************************************************)
RunClass(c) == IF c \in {"+", "-"} THEN "cell"
               ELSE IF c \in {">", "<"} THEN "ptr"
               ELSE "single"

\* a construct (a run, or one character) starts at position p of s
ConstructStart(s, p) ==
    \/ p = 1
    \/ RunClass(s[p]) = "single"
    \/ RunClass(s[p - 1]) # RunClass(s[p])

\* the position of the last character of the construct that starts at p
ConstructEnd(s, p) ==
    IF RunClass(s[p]) = "single" THEN p
    ELSE Least({q \in p..Len(s) :
                   q = Len(s) \/ RunClass(s[q + 1]) # RunClass(s[p])})

\* occurrences of up minus occurrences of anything else in s[p .. q]
Net(s, p, q, up) ==
    Cardinality({k \in p..q : s[k] = up}) - Cardinality({k \in p..q : s[k] # up})

Magnitude(n) == IF n < 0 THEN -n ELSE n

PtrSize(n) == IF n = 0 THEN 0
              ELSE IF Magnitude(n) = 1 THEN 3
              ELSE IF Magnitude(n) <= 127 THEN 4
              ELSE 7

\* the table read with the net delta as it stands
CellSizeByNet(n) == IF n = 0 THEN 0 ELSE IF Magnitude(n) = 1 THEN 4 ELSE 5

\* the table read with the net delta reduced modulo 256
CellSizeByResidue(n) ==
    IF n % 256 = 0 THEN 0 ELSE IF n % 256 \in {1, 255} THEN 4 ELSE 5

\* reduced: whether the net delta of a cell run is reduced before the table is read
SizeOf(s, p, reduced) ==
    LET c == s[p]
        q == ConstructEnd(s, p)
    IN  IF RunClass(c) = "cell"
        THEN (IF reduced THEN CellSizeByResidue(Net(s, p, q, "+"))
              ELSE CellSizeByNet(Net(s, p, q, "+")))
        ELSE IF RunClass(c) = "ptr" THEN PtrSize(Net(s, p, q, ">"))
        ELSE IF c = "." THEN 17
        ELSE IF c = "," THEN 16
        ELSE IF c \in {"[", "]"} THEN 11
        ELSE 0

\* the sum of the sizes of the constructs that start in s[lo+1 .. hi]
RECURSIVE SumSizes(_, _, _, _)
SumSizes(s, lo, hi, reduced) ==
    IF lo >= hi THEN 0
    ELSE IF hi = lo + 1
    THEN (IF ConstructStart(s, hi) THEN SizeOf(s, hi, reduced) ELSE 0)
    ELSE LET mid == (lo + hi) \div 2
         IN  SumSizes(s, lo, mid, reduced) + SumSizes(s, mid, hi, reduced)

\* the bytes compile emitted for the construct of s[p .. q]
Emitted(p, q) == AfterChunk(q) - blk[p]

SizesAre(reduced) ==
    (pc = "compiled" /\ compile_rc = "ok") =>
        /\ \A p \in 1..Len(src) :
              ConstructStart(src, p) =>
                  Emitted(p, ConstructEnd(src, p)) = SizeOf(src, p, reduced)
        /\ code_len = Len(prologue) + Len(epilogue)
                        + SumSizes(src, 0, Len(src), reduced)
        /\ Len(prologue) = 14
        /\ Len(epilogue) = 6

C19_SizesByNetDelta == SizesAre(FALSE)

(***************************************************************************)
(* C19 amended: as above, with the size of a cell run decided by its net   *)
(* delta reduced modulo 256: nothing for a residue of 0, 4 bytes for a     *)
(* residue of 1 or 255, and 5 bytes for any other.                         *)
(***************************************************************************)
C19_SizesByResidue == SizesAre(TRUE)

C19_Witness ==
    /\ pc = "compiled"
    /\ compile_rc = "ok"
    /\ src = Rep("+", 257)
    /\ Emitted(1, 257) = 4
    /\ code_len = 24

(***************************************************************************)
(* C20: for every run of '+'/'-' with net delta d and r = d mod 256 in     *)
(* 0..255, compile emits nothing for r = 0, inc for r = 1, dec for         *)
(* r = 255, add r for 2 <= r <= 128 and sub (256 - r) for 129 <= r <= 254: *)
(* an emitted immediate is always in 2..128, and a net delta congruent to  *)
(* 128 is encoded as add 128, never as sub 128.                            *)
(***************************************************************************)
CellEncoding(r) ==
    IF r = 0 THEN <<>>
    ELSE IF r = 1 THEN <<67, 254, 4, 44>>
    ELSE IF r = 255 THEN <<67, 254, 12, 44>>
    ELSE IF r <= 128 THEN <<67, 128, 4, 44, r>>
    ELSE <<67, 128, 44, 44, 256 - r>>

C20_CellRunEncoding ==
    (pc = "compiled" /\ compile_rc = "ok") =>
        \A p \in 1..Len(src) :
            (ConstructStart(src, p) /\ RunClass(src[p]) = "cell") =>
                LET q == ConstructEnd(src, p)
                    r == Net(src, p, q, "+") % 256
                    enc == CodeBytes(blk[p], Emitted(p, q))
                IN  /\ enc = CellEncoding(r)
                    /\ Len(enc) = 5 => enc[5] \in 2..128
                    /\ r = 128 => enc = <<67, 128, 4, 44, 128>>

C20_Witness ==
    /\ pc = "compiled"
    /\ compile_rc = "ok"
    /\ src = Rep("-", 128)
    /\ code = prologue \o <<67, 128, 4, 44, 128>> \o epilogue

(***************************************************************************)
(* C21: for every run of '>'/'<' with non-zero net delta n, the code holds *)
(* inc r13 / dec r13 for n = 1 / -1, add / sub r13 with the one-byte       *)
(* immediate |n| for 2 <= |n| <= 127, and add / sub r13 with the four-byte *)
(* little-endian immediate |n| for every larger magnitude; add-side forms  *)
(* for n > 0, sub-side forms for n < 0.                                    *)
(***************************************************************************)
\* the four little-endian bytes of a magnitude below 2^24
Imm32(v) == <<v % 256, (v \div 256) % 256, (v \div 65536) % 256, 0>>

PtrEncoding(n) ==
    IF n = 1 THEN <<73, 255, 197>>
    ELSE IF n = -1 THEN <<73, 255, 205>>
    ELSE IF n > 0 /\ n <= 127 THEN <<73, 131, 197, n>>
    ELSE IF n < 0 /\ n >= -127 THEN <<73, 131, 237, -n>>
    ELSE IF n > 0 THEN <<73, 129, 197>> \o Imm32(n)
    ELSE <<73, 129, 237>> \o Imm32(-n)

C21_PointerRunEncoding ==
    (pc = "compiled" /\ compile_rc = "ok") =>
        \A p \in 1..Len(src) :
            (ConstructStart(src, p) /\ RunClass(src[p]) = "ptr") =>
                LET q == ConstructEnd(src, p)
                    n == Net(src, p, q, ">")
                    enc == CodeBytes(blk[p], Emitted(p, q))
                IN  n # 0 =>
                        /\ enc = PtrEncoding(n)
                        /\ enc[3] \in (IF n > 0 THEN {197} ELSE {205, 237})

C21_Witness ==
    /\ pc = "compiled"
    /\ compile_rc = "ok"
    /\ src = Rep("<", 128)
    /\ code = prologue \o <<73, 129, 237, 128, 0, 0, 0>> \o epilogue

(***************************************************************************)
(* C22: every successfully compiled buffer begins with the 14-byte         *)
(* prologue (push rbp; mov rbp,rsp; push r12; push r13; mov r12,rdi;       *)
(* xor r13d,r13d), which saves the frame and the two tape registers, loads *)
(* the tape base from the argument and zeroes the offset, and ends with    *)
(* the 6-byte epilogue (pop r13; pop r12; pop rbp; ret), which restores    *)
(* them in reverse order and returns; a source without instruction         *)
(* characters compiles to exactly these 20 bytes.                          *)
(***************************************************************************)
PrologueBytes == <<85, 72, 137, 229, 65, 84, 65, 85, 73, 137, 252, 69, 49, 237>>

EpilogueBytes == <<65, 93, 65, 92, 93, 195>>

Instructions == {"+", "-", ">", "<", ".", ",", "[", "]"}

\* the processor is at the first byte after the prologue, and no loop starts there
PrologueDone ==
    /\ pc = "exec"
    /\ cpu.rip = Len(PrologueBytes)
    /\ \A p \in 1..Len(src) : src[p] = "[" => blk[p] # Len(PrologueBytes)

C22_PrologueEpilogue ==
    /\ (pc = "compiled" /\ compile_rc = "ok") =>
           /\ code_len >= 20
           /\ CodeBytes(0, 14) = PrologueBytes
           /\ CodeBytes(code_len - 6, 6) = EpilogueBytes
           /\ (\A p \in 1..Len(src) : src[p] \notin Instructions) =>
                  (code_len = 20 /\ code = PrologueBytes \o EpilogueBytes)
    /\ PrologueDone =>
           /\ cpu.stack = <<V("ret_main", 0), V("caller_rbp", 0),
                            V("caller_r12", 0), V("caller_r13", 0)>>
           /\ cpu.r12 = V("tape", 0)
           /\ cpu.r13 = V("abs", 0)
    /\ pc = "cleanup" =>
           /\ cpu.stack = <<>>
           /\ cpu.r13 = V("caller_r13", 0)
           /\ cpu.r12 = V("caller_r12", 0)
           /\ cpu.rbp = V("caller_rbp", 0)

C22_Witness ==
    /\ pc = "cleanup"
    /\ src = <<"x", "x">>
    /\ code = PrologueBytes \o EpilogueBytes
    /\ cpu.r12 = V("caller_r12", 0)
    /\ cpu.stack = <<>>

(***************************************************************************)
(* C23: in every run of the program, at every point of compile the depth   *)
(* of the fixup stack is the number of '[' consumed so far that are not    *)
(* yet closed, and stays within 0..MAX_NESTING: no store lands past the    *)
(* end of fixups[] and nothing is popped from an empty stack.  A script    *)
(* nested deeper than MAX_NESTING ends in a fatal error before anything is *)
(* pushed, and compile never returns through its "unmatched ]" branch.     *)
(***************************************************************************)
InCompile == pc \in {"compile_loop", "compiled"}

\* the '[' among the first k characters of s that no ']' among them closes
OpenAt(s, k) == Cardinality({p \in 1..k : s[p] = "["})
                - Cardinality({p \in 1..k : s[p] = "]"})

\* s opens more than MAX_NESTING loops inside one another
TooDeep(s) ==
    /\ Len(s) > MAX_NESTING
    /\ LET hs == Heights(s) IN \E k \in 1..Len(hs) : hs[k] > MAX_NESTING

C23_DepthWithinBounds ==
    /\ InCompile =>
           /\ depth = OpenAt(src, i)
           /\ depth \in 0..MAX_NESTING
           /\ depth <= Len(fixups)
           /\ Len(fixups) <= MAX_NESTING
           /\ compile_rc # "fail"
    /\ pc = "killed" => InEvents("call")
    /\ (valid.done /\ TooDeep(src)) =>
           /\ valid.rc = -1
           /\ pc = "exit"
           /\ exit_status = 1
           /\ ~InEvents("compile")
           /\ depth = 0
           /\ fixups = <<>>

C23_Witness ==
    /\ pc = "compile_loop"
    /\ src = Nest(MAX_NESTING)
    /\ i = MAX_NESTING
    /\ depth = MAX_NESTING
    /\ Len(fixups) = MAX_NESTING

(***************************************************************************)
(* C24: during compilation the write cursor never decreases, and the bytes *)
(* below it change only when a loop is closed: closing a loop overwrites   *)
(* exactly the 4 placeholder bytes that its matching '[' recorded, leaving *)
(* every other byte below the cursor as it was and appending its own 11    *)
(* bytes at the cursor.  A placeholder is zero until then and is patched   *)
(* once, so that no placeholder is left when the epilogue is emitted.      *)
(***************************************************************************)
Placeholder == <<0, 0, 0, 0>>

\* the '[' (position from 1) that the ']' at position q closes
OpenOf(s, q) ==
    LET hs == Heights(s)
        cands == {p \in 1..(q - 1) : s[p] = "[" /\ hs[p] = hs[q + 1]}
    IN  CHOOSE p \in cands : \A p2 \in cands : p2 <= p

\* this step of compile closes a loop
ClosesLoop ==
    /\ pc = "compile_loop"
    /\ i < Len(src)
    /\ src[i + 1] = "]"
    /\ depth > 0

C24_StepOfCompile ==
    pc = "compile_loop" =>
        /\ code_len' >= code_len
        /\ IF ClosesLoop
           THEN LET f == fixups[depth] IN
                /\ f = blk[OpenOf(src, i + 1)] + 7
                /\ f + 4 <= code_len
                /\ SubSeq(code, f + 1, f + 4) = Placeholder
                /\ pc' = "compile_loop" => code_len' = code_len + 11
                /\ fatal'.kind # "overflow" =>
                       SubSeq(code', f + 1, f + 4) # Placeholder
                /\ SubSeq(code', 1, f) = SubSeq(code, 1, f)
                /\ SubSeq(code', f + 5, code_len) = SubSeq(code, f + 5, code_len)
           ELSE SubSeq(code', 1, code_len) = SubSeq(code, 1, code_len)

C24_Placeholders ==
    /\ pc = "compile_loop" =>
           \A k \in 1..depth : CodeBytes(fixups[k], 4) = Placeholder
    /\ (pc = "compiled" /\ compile_rc = "ok") =>
           \A p \in 1..Len(src) :
               src[p] = "[" => CodeBytes(blk[p] + 7, 4) # Placeholder

C24_AppendOnlyButFixups == [](C24_Placeholders) /\ [][C24_StepOfCompile]_vars

C24_Witness ==
    /\ pc = "compile_loop"
    /\ src = <<"[", "[", "]", "]", "[", "]">>
    /\ i = 3
    /\ depth = 1
    /\ CodeBytes(32, 4) = <<11, 0, 0, 0>>
    /\ CodeBytes(21, 4) = Placeholder

(***************************************************************************)
(* C25: executing the code emitted for ',' stores at the current cell      *)
(* exactly the low 8 bits of what the read routine returned, and changes   *)
(* neither the offset register nor any other cell; when the routine        *)
(* returns the end-of-stream value -1 the cell becomes 255, not 0.         *)
(***************************************************************************)
\* the low 8 bits of the int r, as an unsigned byte
LowByte(r) == CHOOSE b \in 0..255 : (r - b) % 256 = 0

\* what the last call of the read routine returned
LastRead == stdin_read[Len(stdin_read)]

AtStoreOfRead == pc = "exec" /\ Decode(cpu.rip).op = "mov_cell_al"

AtCallOfRead ==
    pc = "exec" /\ Decode(cpu.rip).op = "call_rax" /\ cpu.rax = getchar_addr(libc)

C25_ReadState ==
    /\ AtStoreOfRead =>
           /\ Len(stdin_read) > 0
           /\ cpu.rax[1] = LowByte(LastRead)
    /\ (BodyDone /\ src \in {<<",">>, <<"+", ",">>}) =>
           /\ CellAt(0) = LowByte(stdin_read[1])
           /\ stdin_read = <<EOF>> => CellAt(0) = 255
           /\ DOMAIN tape \subseteq {0}
           /\ cpu.r13 = V("abs", 0)
    /\ (BodyDone /\ src = <<">", ",">>) =>
           /\ CellAt(1) = LowByte(stdin_read[1])
           /\ CellAt(0) = 0
           /\ cpu.r13 = V("abs", 1)

C25_ReadStep ==
    /\ (AtCallOfRead /\ pc' = "exec") =>
           /\ tape' = tape
           /\ cpu'.r13 = cpu.r13
           /\ cpu'.r12 = cpu.r12
    /\ (AtStoreOfRead /\ pc' = "exec") =>
           /\ cpu'.r13 = cpu.r13
           /\ cpu'.r12 = cpu.r12
           /\ stdin_read' = stdin_read
           /\ InTape(CellIndex) =>
                  /\ CellIndex \in DOMAIN tape'
                  /\ tape'[CellIndex] = LowByte(LastRead)
           /\ \A k \in ((DOMAIN tape) \cup (DOMAIN tape')) \ {CellIndex} :
                  /\ k \in DOMAIN tape
                  /\ k \in DOMAIN tape'
                  /\ tape'[k] = tape[k]

C25_ReadStoresLowByte == [](C25_ReadState) /\ [][C25_ReadStep]_vars

C25_Witness ==
    /\ BodyDone
    /\ src = <<"+", ",">>
    /\ stdin_read = <<EOF>>
    /\ CellAt(0) = 255
    /\ cpu.r13 = V("abs", 0)

(***************************************************************************)
(* C26: compile is a single forward pass.  Every iteration of its main     *)
(* loop that goes on to another one has advanced the source index by at    *)
(* least one character, no iteration moves it backwards or past the end,   *)
(* and compile called on any source comes to an end: it returns (success   *)
(* or the "unmatched ]" failure) or the process exits (overflow, or a log  *)
(* that cannot grow).                                                      *)
(***************************************************************************)
C26_IndexInRange == InCompile => (i >= 0 /\ i <= Len(src))

C26_Iteration ==
    pc = "compile_loop" =>
        /\ i' >= i
        /\ i' <= Len(src)
        /\ pc' = "compile_loop" => i' > i

CompileOver ==
    \/ pc = "compiled" /\ compile_rc \in {"ok", "fail"}
    \/ pc = "exit" /\ fatal.kind \in {"overflow", "realloc"}

C26_SinglePass ==
    /\ [](C26_IndexInRange)
    /\ [][C26_Iteration]_vars
    /\ (pc = "compile_loop") ~> CompileOver

C26_Witness ==
    /\ pc = "compiled"
    /\ compile_rc = "ok"
    /\ src = AddProg
    /\ i = Len(src)

(***************************************************************************)
(* C27: nothing checks the tape offset, at compile time or at run time.  A *)
(* script whose first pointer moves take the offset below 0, or to         *)
(* TAPE_SIZE or beyond ('<' as the first instruction, say), validates and  *)
(* compiles successfully, and its execution comes to a state where r13 is  *)
(* outside 0..TAPE_SIZE-1.                                                 *)
(***************************************************************************)
OutOfTape(n) == n < 0 \/ n >= TAPE_SIZE

\* the net move of the pointer run that s starts with
FirstMove(s) == Net(s, 1, ConstructEnd(s, 1), ">")

\* s has no brackets and starts with a pointer run that leaves the tape
LeavesTape(s) ==
    /\ Len(s) >= 1
    /\ RunClass(s[1]) = "ptr"
    /\ \A k \in 1..Len(s) : s[k] \notin {"[", "]"}
    /\ OutOfTape(FirstMove(s))

OffsetOutOfTape == pc = "exec" /\ cpu.r13.sym = "abs" /\ OutOfTape(cpu.r13.off)

C27_State ==
    LeavesTape(src) =>
        /\ valid.done => valid.rc = 0
        /\ pc = "compiled" => compile_rc = "ok"
        /\ pc = "killed" => (InEvents("call") /\ ConstructEnd(src, 1) < Len(src))
        /\ (pc = "exec" /\ cpu.rip = AfterChunk(ConstructEnd(src, 1))) =>
               cpu.r13 = V("abs", FirstMove(src))

C27_Reaches == (pc = "exec" /\ cpu.rip = 0 /\ LeavesTape(src)) ~> OffsetOutOfTape

C27_NoBoundsCheck == [](C27_State) /\ C27_Reaches

C27_Witness ==
    /\ BodyDone
    /\ src = <<"<">>
    /\ valid.rc = 0
    /\ compile_rc = "ok"
    /\ cpu.r13 = V("abs", -1)

\* the same at the other end of the tape, after a run of TAPE_SIZE '>'
OffsetAtEndOfTape ==
    /\ BodyDone
    /\ src = Rep(">", TAPE_SIZE)
    /\ cpu.r13 = V("abs", TAPE_SIZE)

(***************************************************************************)
(* C28: a run of cell operators whose net delta is 0 modulo 256 ("+-",     *)
(* 256 '+') and a run of pointer operators whose net delta is 0 ("><")     *)
(* emit no bytes and add no log entry: the step of compile that consumes   *)
(* the run leaves the code buffer, the cursor and the log as they were.    *)
(***************************************************************************)
\* the run that starts at position p of s (from 1) comes to nothing
NullRun(s, p) ==
    LET q == ConstructEnd(s, p) IN
    \/ RunClass(s[p]) = "cell" /\ Net(s, p, q, "+") % 256 = 0
    \/ RunClass(s[p]) = "ptr" /\ Net(s, p, q, ">") = 0

C28_NullRunStep ==
    (pc = "compile_loop" /\ i < Len(src) /\ NullRun(src, i + 1)) =>
        /\ UNCHANGED <<code, code_len, vlog, vlog_cap>>
        /\ pc' = "compile_loop"
        /\ i' = ConstructEnd(src, i + 1)

C28_OnlyNullRuns ==
    (pc = "compiled" /\ compile_rc = "ok" /\ Len(src) >= 1 /\ NullRun(src, 1)
     /\ ConstructEnd(src, 1) = Len(src)) =>
        /\ code = PrologueBytes \o EpilogueBytes
        /\ code_len = 20
        /\ Len(vlog) = (IF verbose THEN 2 ELSE 0)

C28_NullRunsEmitNothing == [](C28_OnlyNullRuns) /\ [][C28_NullRunStep]_vars

C28_Witness ==
    /\ pc = "compiled"
    /\ compile_rc = "ok"
    /\ src = Rep("+", 256)
    /\ verbose
    /\ code = PrologueBytes \o EpilogueBytes
    /\ Len(vlog) = 2

(***************************************************************************)
(* C29: a character that is no instruction emits no bytes, but ends the    *)
(* run before it: a run is made of directly adjacent characters of one     *)
(* operator pair ('+' '-' or '>' '<').  "+x+" compiles to two inc          *)
(* instructions where "++" compiles to one add of 2, and both leave 2 in   *)
(* the cell.                                                               *)
(***************************************************************************)
IncCell == <<67, 254, 4, 44>>

AddCell2 == <<67, 128, 4, 44, 2>>

C29_CommentStep ==
    (pc = "compile_loop" /\ i < Len(src)) =>
        /\ src[i + 1] \notin Instructions =>
               /\ UNCHANGED <<code, code_len, vlog, vlog_cap, depth, fixups>>
               /\ pc' = "compile_loop"
               /\ i' = i + 1
        /\ (RunClass(src[i + 1]) # "single" /\ pc' = "compile_loop") =>
               /\ i' = ConstructEnd(src, i + 1)
               /\ \A k \in (i + 1)..i' : RunClass(src[k]) = RunClass(src[i + 1])

C29_CommentState ==
    /\ (pc = "compiled" /\ compile_rc = "ok") =>
           /\ src = <<"+", "x", "+">> =>
                  code = PrologueBytes \o IncCell \o IncCell \o EpilogueBytes
           /\ src = <<"+", "+">> =>
                  code = PrologueBytes \o AddCell2 \o EpilogueBytes
    /\ (BodyDone /\ src \in {<<"+", "x", "+">>, <<"+", "+">>}) =>
           /\ CellAt(0) = 2
           /\ DOMAIN tape = {0}

C29_CommentsEndRuns == [](C29_CommentState) /\ [][C29_CommentStep]_vars

C29_Witness ==
    /\ BodyDone
    /\ src = <<"+", "x", "+">>
    /\ code = PrologueBytes \o IncCell \o IncCell \o EpilogueBytes
    /\ CellAt(0) = 2

(***************************************************************************)
(* C30: with verbosity on, whenever compile is between two emitter calls   *)
(* the log partitions the emitted code: its entries are in strictly        *)
(* increasing order of offset, the first starts at offset 0, each starts   *)
(* where the one before it ends, and their lengths add up to the write     *)
(* cursor.  With verbosity off the log stays empty.                        *)
(***************************************************************************)
\* the sum of the lengths of the log entries lo+1 .. hi
RECURSIVE LogLenSum(_, _)
LogLenSum(lo, hi) ==
    IF lo >= hi THEN 0
    ELSE IF hi = lo + 1 THEN vlog[hi].len
    ELSE LET mid == (lo + hi) \div 2
             left == LogLenSum(lo, mid)
         IN  IF left >= 0 THEN left + LogLenSum(mid, hi) ELSE left

LogPartitionsCode ==
    /\ Len(vlog) >= 1
    /\ vlog[1].offset = 0
    /\ \A k \in 1..Len(vlog) : vlog[k].len > 0
    /\ \A k \in 1..(Len(vlog) - 1) :
          /\ vlog[k].offset < vlog[k + 1].offset
          /\ vlog[k].offset + vlog[k].len = vlog[k + 1].offset
    /\ LogLenSum(0, Len(vlog)) = code_len

C30_LogPartitionsCode ==
    /\ (verbose /\ InCompile) => LogPartitionsCode
    /\ ~verbose => (vlog = <<>> /\ vlog_cap = 0)

C30_Witness ==
    /\ verbose
    /\ pc = "compile_loop"
    /\ src = AddProg
    /\ i = 9
    /\ Len(vlog) = 5
    /\ code_len = 30
    /\ LogPartitionsCode

=============================================================================
